---- MODULE Spec2Model ----
(***************************************************************************)
(* Torilate: HTTP/1.1 over a Tor SOCKS4/4a tunnel.                         *)
(* A model of http_get / http_post (src/src/http/http.c) with the socket   *)
(* provider (src/src/net/socket_posix.c), the SOCKS4 negotiator            *)
(* (src/unnamed/part_009), the URI resolver (src/src/util/util.c) and the  *)
(* error values (src/src/error/error.c) they call.                         *)
(*                                                                         *)
(* C strings are TLA+ strings (the bytes before the NUL); a char* is a     *)
(* 1-based index into the string and 0 is NULL.                            *)
(***************************************************************************)
EXTENDS Integers, Sequences, FiniteSets, TLC

(***************************************************************************)
(* Bounds of the model                                                     *)
(***************************************************************************)
\* largest max_redirects argument a caller passes (the smallest is -1)
MaxRedirectsArg == 2

\* the longest buffer handed to net_send_all when it is run alone
MaxSendLen == 4

\* the most send() calls followed in one net_send_all call
MaxSendCalls == 5

\* the most net_connect and net_close calls made on one NetSocket
MaxSocketCalls == 5

\* the largest number of contexts one error is wrapped in
MaxLayers == 3

(***************************************************************************)
(* Program constants                                                       *)
(***************************************************************************)
TOR_IP == "127.0.0.1"
TOR_PORT == 9050
PROG_NAME == "torilate"
HTTP_MAX_RESPONSE == 8192
SOCKS4_OK == 90
ERR_MSG_SIZE == 512

CRLF == "\r\n"

(***************************************************************************)
(* libc string primitives                                                  *)
(***************************************************************************)
Min(S) == CHOOSE x \in S : \A y \in S : x <= y

\* the characters i..j of s that lie before the terminating NUL
Sub(s, i, j) ==
    IF i < 1 \/ i > Len(s) \/ j < i THEN ""
    ELSE SubSeq(s, i, IF j > Len(s) THEN Len(s) ELSE j)

\* s[i]; "" at and past the terminating NUL
At(s, i) == Sub(s, i, i)

\* the C string that starts at index i of s
From(s, i) == Sub(s, i, Len(s))

\* strstr(s + (from-1), needle): the index of the first occurrence at or
\* after from, 0 when there is none
RECURSIVE strstr(_, _, _)
strstr(s, from, needle) ==
    IF from + Len(needle) - 1 > Len(s) THEN 0
    ELSE IF \E i \in from..(from + 255) :
                 i + Len(needle) - 1 <= Len(s) /\ SubSeq(s, i, i + Len(needle) - 1) = needle
    THEN CHOOSE i \in from..(from + 255) :
            /\ i + Len(needle) - 1 <= Len(s)
            /\ SubSeq(s, i, i + Len(needle) - 1) = needle
            /\ \A j \in from..(i - 1) : SubSeq(s, j, j + Len(needle) - 1) /= needle
    ELSE strstr(s, from + 256, needle)

\* strchr(s, c), c a one-character string
strchr(s, c) == strstr(s, 1, c)

\* strncmp(s, prefix, strlen(prefix)) == 0
strncmp0(s, prefix) == Sub(s, 1, Len(prefix)) = prefix

UpperCase == "ABCDEFGHIJKLMNOPQRSTUVWXYZ"
LowerCase == "abcdefghijklmnopqrstuvwxyz"

\* tolower(c)
tolower(c) ==
    IF \E i \in 1..26 : SubSeq(UpperCase, i, i) = c
    THEN SubSeq(LowerCase, CHOOSE i \in 1..26 : SubSeq(UpperCase, i, i) = c,
                CHOOSE i \in 1..26 : SubSeq(UpperCase, i, i) = c)
    ELSE c

\* strncasecmp(s + (i-1), pat, strlen(pat)) == 0
strncasecmp0(s, i, pat) ==
    \A k \in 1..Len(pat) : tolower(At(s, i + k - 1)) = tolower(At(pat, k))

Digits == "0123456789"
isdigit(c) == c \in {"0", "1", "2", "3", "4", "5", "6", "7", "8", "9"}
DigitVal(c) == CHOOSE n \in 0..9 : SubSeq(Digits, n + 1, n + 1) = c
\* isspace() in the C locale (\v is left out: no input of the model holds it)
isspace(c) == c \in {" ", "\t", "\n", "\r", "\f"}

\* the index of the first character at or after i that is not in skip
RECURSIVE SkipWhile(_, _, _)
SkipWhile(s, i, skip) ==
    IF At(s, i) \in skip THEN SkipWhile(s, i + 1, skip) ELSE i

\* the value of the run of decimal digits of s that starts at i, given the
\* value acc of the digits before it
RECURSIVE DigitsValue(_, _, _)
DigitsValue(s, i, acc) ==
    IF isdigit(At(s, i)) THEN DigitsValue(s, i + 1, acc * 10 + DigitVal(At(s, i)))
    ELSE acc

\* the conversion of a %d directive (and of atoi) at index i: white space,
\* an optional sign, then at least one digit
ScanInt(s, i) ==
    LET j == SkipWhile(s, i, {" ", "\t", "\n", "\r", "\f"})
        neg == At(s, j) = "-"
        k == IF At(s, j) \in {"-", "+"} THEN j + 1 ELSE j
        e == SkipWhile(s, k, {"0", "1", "2", "3", "4", "5", "6", "7", "8", "9"})
        v == DigitsValue(s, k, 0)
    IN  [ok |-> e > k, next |-> e, val |-> IF neg THEN 0 - v ELSE v]

\* a conversion that stops after one digit
atoi_OneDigit(s) == IF isdigit(At(s, 1)) THEN DigitVal(At(s, 1)) ELSE 0

\* atoi(s): 0 when no digits can be converted
atoi(s) == LET r == ScanInt(s, 1) IN IF r.ok THEN r.val ELSE 0

\* what snprintf(dst, size, "%s", s) leaves in dst
Truncate(s, size) == Sub(s, 1, size - 1)

(***************************************************************************)
(* Error values (error.c)                                                  *)
(***************************************************************************)
ERR_OK == [code |-> "SUCCESS", message |-> ""]

\* ERR_FAILED(err)
ERR_FAILED(err) == err.code /= "SUCCESS"

\* ERR_NEW(code, fmt, ...): msg is the formatted text
err_create(code, msg) == [code |-> code, message |-> Truncate(msg, ERR_MSG_SIZE)]

\* a wrapping that files every wrapped error under one code
err_propagate_Recode(err, context) ==
    [code |-> "ERR_HTTP_REQUEST_FAILED",
     message |-> Truncate(context \o ": " \o err.message, ERR_MSG_SIZE)]

\* ERR_PROPAGATE(err, fmt, ...): context is the formatted text
err_propagate(err, context) ==
    LET ctx == Truncate(context, ERR_MSG_SIZE)
    IN  IF err.message /= ""
        THEN [err EXCEPT !.message = Truncate(ctx \o ": " \o err.message, ERR_MSG_SIZE)]
        ELSE [err EXCEPT !.message = ctx]

\* typedef enum { SUCCESS = 0, ... } ErrorCode: the code numbered n is at n + 1
ErrorCode ==
    <<"SUCCESS", "ERR_NO_ARGS", "ERR_INVALID_ARGS", "ERR_INVALID_COMMAND",
      "ERR_NETWORK_IO", "ERR_INVALID_ADDRESS", "ERR_NET_RECV_FAILED",
      "ERR_SOCK_INIT_FAILED", "ERR_CONNECTION_FAILED", "ERR_TOR_CONNECTION_FAILED",
      "ERR_SOCKET_CREATION_FAILED", "ERR_ADDRESS_RESOLUTION_FAILED",
      "ERR_INVALID_URI", "ERR_BAD_RESPONSE", "ERR_INVALID_SCHEMA",
      "ERR_INVALID_HEADER", "ERR_HTTP_REQUEST_FAILED", "ERR_HTTP_REDIRECT_LIMIT",
      "ERR_HTTP_REDIRECT_FAILED", "ERR_IO", "ERR_OUTOFMEMORY", "ERR_NO_PERMISSION",
      "ERR_FILE_NOT_FOUND", "ERR_LAST_ERROR_CODE">>

\* (int)code
CodeNumber(code) == (CHOOSE i \in 1..Len(ErrorCode) : ErrorCode[i] = code) - 1

\* static const char *err_messg_list[ERR_COUNT]; the entry of code n is at n + 1
err_messg_list ==
    <<"No error", "No arguments provided", "Invalid arguments", "Invalid command",
      "Network I/O error", "Invalid network address",
      "Failed to receive data from socket", "Failed to initialize socket subsystem",
      "Failed to connect to host", "Failed to connect to TOR proxy",
      "Failed to create socket", "Failed to resolve address",
      "Invalid URL", "Bad or malformed response", "Unsupported URL method or schema",
      "Invalid HTTP header", "HTTP request failed", "Exceeded maximum HTTP redirects",
      "Failed to follow HTTP redirect", "I/O error", "Out of memory",
      "Permission denied", "File not found", "Unknown error">>

\* static int nerr = sizeof(err_messg_list) / sizeof(err_messg_list[0]) - 1
nerr == Len(err_messg_list) - 1

\* an extraction that cuts at the first colon, followed by a space or not
extract_top_level_error_Colon(message) ==
    LET first_separator == strstr(message, 1, ":")
    IN  IF first_separator /= 0 THEN Sub(message, 1, first_separator - 1)
        ELSE message

\* an extraction that keeps the whole chain
extract_top_level_error_Whole(message) == message

\* extract_top_level_error(message): what precedes the first ": ", in a
\* buffer of 512 bytes, or message itself
extract_top_level_error(message) ==
    LET first_separator == strstr(message, 1, ": ")
        len == IF first_separator - 1 >= ERR_MSG_SIZE THEN ERR_MSG_SIZE - 1
               ELSE first_separator - 1
    IN  IF first_separator /= 0 THEN Sub(message, 1, len) ELSE message

\* get_err_msg(err, verbose): err with the formatted text in err->message,
\* which is also what is returned
get_err_msg(err, verbose) ==
    LET n == CodeNumber(err.code)
        err_code == IF n < 0 \/ n >= nerr THEN CodeNumber("ERR_LAST_ERROR_CODE") ELSE n
        message_to_display ==
            IF ~verbose /\ err.message /= ""
            THEN extract_top_level_error(err.message) ELSE err.message
        head == PROG_NAME \o ": (" \o ToString(n) \o ") " \o err_messg_list[err_code + 1]
        buffer == Truncate(IF message_to_display /= ""
                           THEN head \o ": " \o message_to_display ELSE head,
                           ERR_MSG_SIZE)
    IN  [err EXCEPT !.message = Truncate(buffer, ERR_MSG_SIZE)]

(***************************************************************************)
(* Address classification (socket_posix.c, over inet_pton)                 *)
(***************************************************************************)
\* one decimal octet of inet_pton(AF_INET, ...) at index i: 1 to 3 digits,
\* at most 255, no leading zero before another digit
Octet(s, i) ==
    LET e == SkipWhile(s, i, {"0", "1", "2", "3", "4", "5", "6", "7", "8", "9"})
        v == DigitsValue(s, i, 0)
    IN  [ok |-> e > i /\ e - i <= 3 /\ v <= 255 /\ (e - i > 1 => At(s, i) /= "0"),
         next |-> e, val |-> v]

\* inet_pton(AF_INET, s, ..) == 1: exactly four octets separated by dots
inet_pton4(s) ==
    LET a == Octet(s, 1)
        b == Octet(s, a.next + 1)
        c == Octet(s, b.next + 1)
        d == Octet(s, c.next + 1)
    IN  /\ a.ok /\ At(s, a.next) = "."
        /\ b.ok /\ At(s, b.next) = "."
        /\ c.ok /\ At(s, c.next) = "."
        /\ d.ok /\ d.next = Len(s) + 1

\* inet_pton(AF_INET6, s, ..) == 1 needs at least one colon and nothing but
\* hexadecimal digits, colons and dots
inet_pton6(s) ==
    /\ strchr(s, ":") /= 0
    /\ \A i \in 1..Len(s) :
          \/ isdigit(At(s, i))
          \/ At(s, i) \in {":", ".", "a", "b", "c", "d", "e", "f",
                           "A", "B", "C", "D", "E", "F"}

net_get_addr_type(addr) ==
    IF inet_pton4(addr) THEN "IPV4"
    ELSE IF inet_pton6(addr) THEN "IPV6"
    ELSE "DOMAIN"

\* net_parse_ipv4: inet_pton returns 0 for a malformed address, and 0 < 1
\* takes the first branch
net_parse_ipv4(ip) ==
    IF ~inet_pton4(ip)
    THEN err_create("ERR_ADDRESS_RESOLUTION_FAILED",
                    "Failed to parse IPv4 address '" \o ip \o "' with error 0")
    ELSE ERR_OK

(***************************************************************************)
(* The heap: a char* returned by malloc is the index of its block, 0 is     *)
(* NULL; a block keeps its C string and the number of times it was freed.   *)
(***************************************************************************)
NULL == 0
Str(h, p) == h[p].data
malloc_str(h, s) == Append(h, [data |-> s, frees |-> 0])
free(h, p) == [h EXCEPT ![p].frees = @ + 1]

\* URI parsed_uri = {0}
URI_ZERO == [port |-> 0, schema |-> "HTTP", host |-> NULL, path |-> NULL,
             addr_type |-> "IPV4"]

\* a copy that ignores the length it is given
ut_strndup_Whole(s, n) == s

\* ut_strndup(s, n)
ut_strndup(s, n) == IF n < Len(s) THEN Sub(s, 1, n) ELSE s

\* no path at all when the URI has none
DefaultPath_Empty == ""

\* ut_strdup("/")
DefaultPath == "/"

\* parse_uri(uri, out) on heap h: [code, out, heap]
parse_uri(uri, out, h) ==
    LET isHttp == strncmp0(uri, "http://")
        isHttps == strncmp0(uri, "https://")
        format == strstr(uri, 1, "://")
    IN  IF ~isHttp /\ ~isHttps /\ format /= 0
        THEN \* unsupported scheme: the scheme name is left in out->host
             [code |-> "ERR_INVALID_URI",
              out |-> [out EXCEPT !.schema = "INVALID_SCHEMA", !.host = Len(h) + 1],
              heap |-> malloc_str(h, ut_strndup(uri, format - 1))]
        ELSE
        LET schema == IF isHttps THEN "HTTPS" ELSE "HTTP"
            host_start == IF isHttp THEN 8 ELSE IF isHttps THEN 9 ELSE 1
            rest == From(uri, host_start)
            path_start == strchr(rest, "/")
            host0 == IF path_start /= 0 THEN ut_strndup(rest, path_start - 1) ELSE rest
            endpoint == IF path_start /= 0 THEN From(rest, path_start) ELSE DefaultPath
            port_start == strchr(host0, ":")
            \* *port_start = '\0'
            host == IF port_start /= 0 THEN Sub(host0, 1, port_start - 1) ELSE host0
            port == IF port_start /= 0 THEN atoi(From(host0, port_start + 1))
                    ELSE IF schema = "HTTP" THEN 80 ELSE 443
        IN  [code |-> "SUCCESS",
             out |-> [port |-> port, schema |-> schema, host |-> Len(h) + 1,
                      path |-> Len(h) + 2, addr_type |-> net_get_addr_type(host)],
             heap |-> malloc_str(malloc_str(h, host), endpoint)]

\* cleanup_uri(uri) on heap h: [uri, heap]
cleanup_uri(uri, h) ==
    LET h1 == IF uri.host /= NULL THEN free(h, uri.host) ELSE h
        h2 == IF uri.path /= NULL THEN free(h1, uri.path) ELSE h1
    IN  [uri |-> URI_ZERO, heap |-> h2]

(***************************************************************************)
(* HTTP request text (http_get_once, http_post_once)                       *)
(***************************************************************************)
\* validate_header: a header is rejected when it is empty or holds a CR or
\* LF other than as its one trailing CRLF
validate_header(hd) ==
    LET core == IF Len(hd) >= 2 /\ Sub(hd, Len(hd) - 1, Len(hd)) = CRLF
                THEN Sub(hd, 1, Len(hd) - 2) ELSE hd
    IN  IF hd = "" \/ strchr(core, "\r") /= 0 \/ strchr(core, "\n") /= 0
        THEN err_create("ERR_INVALID_HEADER", "Header is empty or contains CR/LF")
        ELSE ERR_OK

\* the index end stops at: while (end > start && isspace(*end)) end--
RECURSIVE TrimEnd(_, _, _)
TrimEnd(s, start, end) ==
    IF end > start /\ isspace(At(s, end)) THEN TrimEnd(s, start, end - 1) ELSE end

\* one extra header, trimmed, with its CRLF
TrimHeader(hd) ==
    LET start == SkipWhile(hd, 1, {" ", "\t", "\n", "\r", "\f"})
        end == TrimEnd(hd, start, Len(hd))
    IN  Sub(hd, start, end) \o CRLF

\* headers_str of a list whose headers all passed validate_header
RECURSIVE FormatHeaders(_)
FormatHeaders(hs) ==
    IF hs = <<>> THEN "" ELSE TrimHeader(Head(hs)) \o FormatHeaders(Tail(hs))

\* the first header validate_header rejects: its error, or ERR_OK
RECURSIVE ValidateHeaders(_)
ValidateHeaders(hs) ==
    IF hs = <<>> THEN ERR_OK
    ELSE IF ERR_FAILED(validate_header(Head(hs)))
         THEN err_propagate(validate_header(Head(hs)), "Invalid header: " \o Head(hs))
         ELSE ValidateHeaders(Tail(hs))

\* port_part
PortPart(port) == IF port /= 80 THEN ":" \o ToString(port) ELSE ""

\* the request http_get_once formats into char request[2048]
GetRequest(host, path, port, hs) ==
    Truncate("GET " \o path \o " HTTP/1.1\r\n"
             \o "Host: " \o host \o PortPart(port) \o "\r\n"
             \o "User-Agent: Torilate\r\n"
             \o FormatHeaders(hs)
             \o "Connection: close\r\n"
             \o "\r\n", 2048)

\* the request http_post_once formats into char request[4096]; body is a
\* one-element tuple, or << >> for a NULL body
PostRequest(host, path, port, body, hs) ==
    LET text == IF body = <<>> THEN "" ELSE body[1]
    IN  Truncate("POST " \o path \o " HTTP/1.1\r\n"
                 \o "Host: " \o host \o PortPart(port) \o "\r\n"
                 \o "User-Agent: Torilate\r\n"
                 \o FormatHeaders(hs)
                 \o "Content-Length: " \o ToString(Len(text)) \o "\r\n"
                 \o "Connection: close\r\n"
                 \o "\r\n" \o text, 4096)

(***************************************************************************)
(* HTTP response text (http_recv_response, the Location scan)              *)
(***************************************************************************)
\* sscanf(status, "HTTP/%*d.%*d %d", &code) after the leading blanks, CRs
\* and LFs are skipped: the code, or -1 when the conversion count is not 1
ScanStatus(raw) ==
    LET st == SkipWhile(raw, 1, {" ", "\r", "\n"})
        major == ScanInt(raw, st + 5)
        minor == ScanInt(raw, major.next + 1)
        code == ScanInt(raw, minor.next)
    IN  IF /\ Sub(raw, st, st + 4) = "HTTP/"
           /\ major.ok /\ At(raw, major.next) = "."
           /\ minor.ok
           /\ code.ok
        THEN code.val ELSE -1

\* a parse that takes any code of three digits or more
ParseStatusCode_NoUpperBound(raw) ==
    LET code == ScanStatus(raw)
    IN  IF code = -1 \/ code < 100 THEN -1 ELSE code

\* the parse of http_recv_response: the status code, or -1 for
\* ERR_BAD_RESPONSE
ParseStatusCode(raw) ==
    LET code == ScanStatus(raw)
    IN  IF code = -1 \/ code < 100 \/ code > 599 THEN -1 ELSE code

\* the header scan of the redirect loop from the line that starts at index
\* p: [kind, url], kind "found", "unterminated" (no CRLF after the value) or
\* "missing"
RECURSIVE ScanLocationFrom(_, _)
ScanLocationFrom(raw, p) ==
    IF strncasecmp0(raw, p, "Location:")
    THEN LET url == SkipWhile(raw, p + 9, {" "})
             end == strstr(raw, url, CRLF)
         IN  IF end = 0 THEN [kind |-> "unterminated", url |-> ""]
             ELSE [kind |-> "found", url |-> Sub(raw, url, end - 1)]
    ELSE LET nxt == strstr(raw, p, CRLF)
         IN  IF nxt = 0 THEN [kind |-> "missing", url |-> ""]
             ELSE ScanLocationFrom(raw, nxt + 2)

\* char *headers_redir = strstr(current_response.raw, "\r\n"); while ...
ScanLocation(raw) ==
    LET first == strstr(raw, 1, CRLF)
    IN  IF first = 0 THEN [kind |-> "missing", url |-> ""]
        ELSE ScanLocationFrom(raw, first + 2)

(***************************************************************************)
(* The decisions of the redirect loop (http_get, http_post)                *)
(***************************************************************************)
\* a loop condition that does not take 304 Not Modified for a redirect
IsRedirectStatus_Not304(code) == code >= 300 /\ code < 400 /\ code /= 304

\* while (status_code >= 300 && status_code < 400)
IsRedirectStatus(code) == code >= 300 /\ code < 400

\* a loop entered whether or not the caller asked to follow redirects
LoopContinues_AlwaysFollow(follow, code) == IsRedirectStatus(code)

\* if (follow_redirects) ... while (status_code >= 300 && status_code < 400)
LoopContinues(follow, code) == follow /\ IsRedirectStatus(code)

\* a limit check that is off by one: > for >=
RedirectLimitReached_OffByOne(followed, max) == followed > max

\* a limit test that reads a negative max_redirects as "no limit"
RedirectLimitReached_NegativeUnlimited(followed, max) ==
    max >= 0 /\ followed >= max

\* if (redirects_followed >= max_redirects)
RedirectLimitReached(followed, max) == followed >= max

\* a method conversion that forgets 303 See Other
MethodAfterRedirect_No303(post, code) ==
    IF code = 301 \/ code = 302 THEN FALSE ELSE post

\* a method conversion that a later 307 or 308 undoes
MethodAfterRedirect_Restore(post, code) ==
    IF code = 301 \/ code = 302 \/ code = 303 THEN FALSE
    ELSE IF code = 307 \/ code = 308 THEN TRUE
    ELSE post

\* if (code == 301 || code == 302 || code == 303) use_post = false;
MethodAfterRedirect(post, code) ==
    IF code = 301 \/ code = 302 \/ code = 303 THEN FALSE ELSE post

\* a test of url[1] for url[0]
IsRelativeLocation_WrongIndex(loc) == At(loc, 2) = "/"

\* if (url[0] == '/')
IsRelativeLocation(loc) == At(loc, 1) = "/"

(***************************************************************************)
(* Inputs of the model                                                     *)
(***************************************************************************)
\* the uri argument
Uris == {"a.io/x", "http://10.0.0.1:8080", "ftp://a.io"}

\* the body argument of http_post: a one-element tuple, or << >> for NULL
Bodies == {<<"a=1">>, <<>>}

\* the headers argument
HeaderLists == {<<>>, <<" X-A: 1 ">>, <<"X: 1\r\nY: 2">>}

\* the max_redirects argument
MaxRedirectsArgs == (0 - 1)..MaxRedirectsArg

\* errno after a failed system call: ECONNRESET
Errnos == {104}

\* what the peer sends back on one connection before it closes it
ServerTexts ==
    {"HTTP/1.1 200 OK\r\nServer: t\r\n\r\nhi",
     "HTTP/1.1 404 Not Found\r\n\r\n",
     "HTTP/1.1 301 Moved\r\nLocation: /new\r\n\r\n",
     "HTTP/1.1 302 Found\r\nlocation:http://10.0.0.2:8080/p\r\n\r\n",
     "HTTP/1.1 303 See Other\r\nServer: t\r\nLOCATION:   /s\r\n\r\n",
     "HTTP/1.1 307 Temporary Redirect\r\nLocation: /t\r\n\r\n",
     "HTTP/1.1 308 Permanent Redirect\r\nLocation: b.io/q\r\n\r\n",
     "HTTP/1.1 304 Not Modified\r\nETag: x\r\n\r\n",
     "HTTP/1.1 302 Found\r\nLocation: ftp://c.io/f\r\n\r\n",
     "HTTP/1.1 301 Moved\r\nLocation: /cut",
     "HTTP/1.1 302 Found\r\nServer: t\r\n\r\nLocation: /body\r\n",
     "HTTP/1.1 300",
     "HTTP/1.1 700 Odd\r\n\r\n",
     "HTTP/1.1 99 Low\r\n\r\n",
     "\r\n HTTP/1.0 204 No Content\r\n\r\n",
     "garbage",
     ""}

\* the reply of the proxy to the CONNECT request: n bytes received (-1: recv
\* failed), and bytes 0 and 1 of the reply
SocksReplies ==
    {[n |-> 8, vn |-> 0, cd |-> 90], [n |-> 8, vn |-> 0, cd |-> 91],
     [n |-> 8, vn |-> 0, cd |-> 92], [n |-> 8, vn |-> 0, cd |-> 93],
     [n |-> 8, vn |-> 0, cd |-> 0], [n |-> 8, vn |-> 4, cd |-> 91],
     [n |-> 8, vn |-> 4, cd |-> 90], [n |-> 4, vn |-> 0, cd |-> 90],
     [n |-> 0, vn |-> 0, cd |-> 0], [n |-> 0 - 1, vn |-> 0, cd |-> 0]}

\* the outcomes of socket() and connect() inside net_connect
ConnectOutcomes == {"ok", "socket_failed", "connect_failed"}

(***************************************************************************)
(* State                                                                   *)
(***************************************************************************)
VARIABLES
    pc,                 \* where the call is
    args,               \* the arguments of the http_get / http_post call
    parsed_uri,         \* URI parsed_uri
    heap,               \* the blocks malloc returned
    sock,               \* NetSocket sock: its handle
    err,                \* Error err
    use_post,           \* bool use_post (http_post)
    redirects_followed, \* int redirects_followed
    current_response,   \* HttpResponse current_response
    response,           \* the caller's HttpResponse *response
    url,                \* the Location value the header scan found
    once,               \* the arguments of the pending http_get_once / http_post_once
    fds,                \* the open file descriptors of the process
    live,               \* descriptors net_connect returned that are not closed yet
    connects,           \* every <<ip, port>> connect() was called with
    attempts,           \* number of http_get_once / http_post_once calls
    used,               \* number of those calls made on the socket now in sock
    nio,                \* number of connect, send and recv system calls
    lastReq,            \* the text of the last HTTP request sent
    lastRaw,            \* the text of the last HTTP response received
    lastReply,          \* the proxy's reply in the last SOCKS negotiation, if any
    unit,               \* the function under way: "http", or a function run alone
    sa,                 \* net_send_all run alone: its arguments and locals
    sx,                 \* socks4_connect run alone: its arguments and outcome
    cs,                 \* net_connect / net_close run alone: the NetSocket
    rr,                 \* http_recv_response run alone: its locals
    er,                 \* an Error made, wrapped and rendered alone
    pu,                 \* parse_uri run alone: its argument and outcome
    alone               \* main, http_post_once or the Location copy run alone:
                        \* the arguments and locals of the one that runs

vars == <<pc, args, parsed_uri, heap, sock, err, use_post, redirects_followed,
          current_response, response, url, once, fds, live, connects,
          attempts, used, nio, lastReq, lastRaw, lastReply, unit, sa, sx, cs, rr,
          er, pu, alone>>

\* the state of the functions that are run alone
unitvars == <<unit, sa, sx, cs, rr, er, pu, alone>>

\* HttpResponse x = {0}
RESPONSE_ZERO == [status_code |-> 0, raw |-> "", bytes_received |-> 0]

ONCE_NONE == [post |-> FALSE, host |-> "", path |-> "", port |-> 0,
              addr_type |-> "IPV4", ctx |-> <<>>]

ARGS_NONE == [fn |-> "", uri |-> "", body |-> <<>>, headers |-> <<>>,
              follow_redirects |-> FALSE, max_redirects |-> 0]

\* net_send_all not yet called
SA_IDLE == [pc |-> "idle", buf |-> "", sent |-> 0, n |-> 0, calls |-> 0,
            wire |-> "", err |-> ERR_OK]

\* socks4_connect not yet called
SX_IDLE == [pc |-> "idle", dst_ip |-> "", dst_port |-> 0, user_id |-> "",
            addr_type |-> "IPV4", reply |-> <<>>, wire |-> <<>>, calls |-> 0,
            err |-> ERR_OK, overrun |-> 0]

\* NetSocket sock = {0}, nothing connected or closed yet
CS_IDLE == [handle |-> 0, fds |-> {0, 1, 2}, connected |-> {}, os_closes |-> 0,
            since |-> 0 - 1, calls |-> 0, last |-> "none"]

\* http_recv_response not yet called
RR_IDLE == [pc |-> "idle", stream |-> "", total |-> 0, asked |-> 0, got |-> 0,
            nul |-> 0 - 1, out |-> RESPONSE_ZERO, err |-> ERR_OK]

ER_IDLE == [pc |-> "idle", code |-> "SUCCESS", m |-> "", ctxs |-> <<>>,
            err |-> ERR_OK, verbose |-> FALSE, before |-> "", shown |-> "",
            again |-> ""]

PU_IDLE == [pc |-> "idle", uri |-> "", built |-> <<>>, code |-> "SUCCESS",
            out |-> URI_ZERO, heap |-> <<>>]

ALONE_IDLE == [pc |-> "idle"]

Init ==
    /\ pc = "idle"
    /\ args = ARGS_NONE
    /\ parsed_uri = URI_ZERO
    /\ heap = <<>>
    /\ sock = 0
    /\ err = ERR_OK
    /\ use_post = TRUE
    /\ redirects_followed = 0
    /\ current_response = RESPONSE_ZERO
    /\ response = RESPONSE_ZERO
    /\ url = ""
    /\ once = ONCE_NONE
    /\ fds = {0, 1, 2}
    /\ live = {}
    /\ connects = {}
    /\ attempts = 0
    /\ used = 0
    /\ nio = 0
    /\ lastReq = ""
    /\ lastRaw = ""
    /\ lastReply = <<>>
    /\ unit = "http"
    /\ sa = SA_IDLE
    /\ sx = SX_IDLE
    /\ cs = CS_IDLE
    /\ rr = RR_IDLE
    /\ er = ER_IDLE
    /\ pu = PU_IDLE
    /\ alone = ALONE_IDLE

(***************************************************************************)
(* Socket provider (socket_posix.c)                                        *)
(***************************************************************************)
\* a net_close that marks the handle invalid and leaves the descriptor open
net_close_NoClose(handle, open, mine) ==
    [sock |-> IF handle >= 0 THEN 0 - 1 ELSE handle, fds |-> open, live |-> mine,
     closed |-> <<>>]

\* a net_close that closes the descriptor and leaves the handle as it was
net_close_KeepHandle(handle, open, mine) ==
    IF handle >= 0
    THEN [sock |-> handle, fds |-> open \ {handle}, live |-> mine \ {handle},
          closed |-> <<handle>>]
    ELSE [sock |-> handle, fds |-> open, live |-> mine, closed |-> <<>>]

\* net_close(&sock): [sock, fds, live, closed], closed the descriptors
\* handed to close()
net_close(handle, open, mine) ==
    IF handle >= 0
    THEN [sock |-> 0 - 1, fds |-> open \ {handle}, live |-> mine \ {handle},
          closed |-> <<handle>>]
    ELSE [sock |-> handle, fds |-> open, live |-> mine, closed |-> <<>>]

\* the descriptor socket() returns: the lowest one not open
NewFd(open) == Min({n \in 0..(Cardinality(open)) : n \notin open})

\* net_connect(&sock, ip, port) with the outcome of its system calls:
\* [err, sock, fds, live]
net_connect(handle, open, mine, ip, port, outcome, errno) ==
    IF outcome = "socket_failed"
    THEN [err |-> err_create("ERR_SOCKET_CREATION_FAILED",
                             "socket() creation failed with error " \o ToString(errno)),
          sock |-> handle, fds |-> open, live |-> mine]
    ELSE IF ~inet_pton4(ip)
    THEN [err |-> err_create("ERR_INVALID_ADDRESS",
                             "Failed to parse IP address '" \o ip \o "'"),
          sock |-> handle, fds |-> open, live |-> mine]
    ELSE IF outcome = "connect_failed"
    THEN [err |-> err_create("ERR_CONNECTION_FAILED",
                             "Failed to connect to " \o ip \o ":" \o ToString(port)
                             \o " with error " \o ToString(errno)),
          sock |-> handle, fds |-> open, live |-> mine]
    ELSE [err |-> ERR_OK, sock |-> NewFd(open), fds |-> open \cup {NewFd(open)},
          live |-> mine \cup {NewFd(open)}]

\* a connection made to the target itself
ProxyEndpoint_Direct ==
    IF parsed_uri.host /= NULL
    THEN <<Str(heap, parsed_uri.host), parsed_uri.port>>
    ELSE <<TOR_IP, TOR_PORT>>

\* the endpoint http_get / http_post hand to net_connect
ProxyEndpoint == <<TOR_IP, TOR_PORT>>

HostPort(host, port) == host \o ":" \o ToString(port)

(***************************************************************************)
(* SOCKS4/4a negotiator (socks4.c)                                         *)
(***************************************************************************)
SOCKS4_VERSION == 4
SOCKS4_CMD_CONNECT == 1

\* the byte a character of a host name, an address or a user id is stored as
OrdOf ==
    [c \in {At(Digits, i) : i \in 1..10} \cup {At(UpperCase, i) : i \in 1..26}
           \cup {At(LowerCase, i) : i \in 1..26} \cup {"-", ".", ":"} |->
        IF isdigit(c) THEN 48 + DigitVal(c)
        ELSE IF \E i \in 1..26 : SubSeq(UpperCase, i, i) = c
        THEN 64 + (CHOOSE i \in 1..26 : SubSeq(UpperCase, i, i) = c)
        ELSE IF \E i \in 1..26 : SubSeq(LowerCase, i, i) = c
        THEN 96 + (CHOOSE i \in 1..26 : SubSeq(LowerCase, i, i) = c)
        ELSE IF c = "-" THEN 45
        ELSE IF c = "." THEN 46
        ELSE 58]

ord(c) == IF c \in DOMAIN OrdOf THEN OrdOf[c] ELSE 95

\* the bytes memcpy copies from a C string, its NUL left out
Bytes(str) == [i \in 1..Len(str) |-> ord(At(str, i))]

\* the two bytes of net_htons(port) as memcpy lays them down
PortBytes(port) == <<port \div 256, port % 256>>

\* the four bytes of in_addr.s_addr that inet_pton stores for a dotted quad
Ipv4Bytes(ip) ==
    LET a == Octet(ip, 1)
        b == Octet(ip, a.next + 1)
        c == Octet(ip, b.next + 1)
        d == Octet(ip, c.next + 1)
    IN  <<a.val, b.val, c.val, d.val>>

\* a placeholder SOCKS4a does not allow: its last byte must not be zero
Socks4PlaceholderIp_Zero == "0.0.0.0"

\* the address put in the IP field when the proxy is to resolve the name
Socks4PlaceholderIp == "0.0.0.1"

\* request[0..offset) as handed to net_send_all
Socks4Request(dst_ip, dst_port, user_id, addr_type) ==
    <<SOCKS4_VERSION, SOCKS4_CMD_CONNECT>>
    \o PortBytes(dst_port)
    \o Ipv4Bytes(IF addr_type = "DOMAIN" THEN Socks4PlaceholderIp ELSE dst_ip)
    \o Bytes(user_id) \o <<0>>
    \o (IF addr_type = "DOMAIN" THEN Bytes(dst_ip) ELSE <<>>)
    \o <<0>>

\* a reply taken for complete as soon as it holds the two bytes that are read
Socks4ReplyComplete_TwoBytes(n) == n >= 2

\* bytes_received == sizeof(response)
Socks4ReplyComplete(n) == n = 8

\* a reply accepted on its status byte alone
Socks4Granted_StatusOnly(vn, cd) == cd = SOCKS4_OK

\* response[0] == 0x00 && response[1] == SOCKS4_OK
Socks4Granted(vn, cd) == vn = 0 /\ cd = SOCKS4_OK

\* uint8_t request[512]
Socks4RequestSize == 512

\* offset when the request is complete: version, command, port, address,
\* user id and its NUL, the domain name for SOCKS4a, and a closing NUL
Socks4RequestLen(dst_ip, user_id, addr_type) ==
    2 + 2 + 4 + Len(user_id) + 1 + (IF addr_type = "DOMAIN" THEN Len(dst_ip) ELSE 0) + 1

\* socks4_connect(sock, dst_ip, dst_port, user_id, addr_type) with the
\* outcome of its send and the reply it receives: [err, calls, wire], calls
\* the number of send and recv calls it made, wire the bytes the transport
\* accepted
socks4_connect(dst_ip, dst_port, user_id, addr_type, sendOK, reply, errno) ==
    LET n == Socks4RequestLen(dst_ip, user_id, addr_type)
        ip == IF addr_type = "DOMAIN" THEN net_parse_ipv4(Socks4PlaceholderIp)
              ELSE net_parse_ipv4(dst_ip)
        request == Socks4Request(dst_ip, dst_port, user_id, addr_type)
    IN  IF ERR_FAILED(ip)
        THEN [err |-> err_propagate(ip,
                         IF addr_type = "DOMAIN"
                         THEN "Failed to set SOCKS4 domain placeholder IP"
                         ELSE "SOCKS4 IP resolution failed"),
              calls |-> 0, wire |-> <<>>]
        ELSE IF ~sendOK
        THEN [err |-> err_propagate(
                         err_create("ERR_NETWORK_IO",
                                    "send() failed after 0/" \o ToString(n)
                                    \o " bytes (error " \o ToString(errno) \o ")"),
                         "Failed to send SOCKS4 CONNECT request (" \o ToString(n)
                         \o " bytes)"),
              calls |-> 1, wire |-> <<>>]
        ELSE IF reply.n < 0
        THEN [err |-> err_propagate(
                         err_create("ERR_NETWORK_IO",
                                    "recv() failed with error " \o ToString(errno)),
                         "Failed to receive SOCKS4 response"),
              calls |-> 2, wire |-> request]
        ELSE IF ~Socks4ReplyComplete(reply.n)
        THEN [err |-> err_create("ERR_NET_RECV_FAILED",
                                 "Expected 8 bytes in SOCKS4 response but received "
                                 \o ToString(reply.n)),
              calls |-> 2, wire |-> request]
        ELSE IF ~Socks4Granted(reply.vn, reply.cd)
        THEN [err |-> err_create("ERR_CONNECTION_FAILED",
                                 "SOCKS4 request rejected (VN=" \o ToString(reply.vn)
                                 \o ", CD=" \o ToString(reply.cd) \o ") for "
                                 \o HostPort(dst_ip, dst_port)),
              calls |-> 2, wire |-> request]
        ELSE [err |-> ERR_OK, calls |-> 2, wire |-> request]

(***************************************************************************)
(* http_get / http_post, step by step                                      *)
(***************************************************************************)
\* a failed attempt that is tried again
OnceFailed_Retry(e) ==
    /\ err' = e
    /\ pc' = "socks"

\* a failed step after which the attempt goes on to send its request
OnceFailed_GoOn(e) ==
    /\ err' = e
    /\ pc' = "send"

\* the failure e of the pending http_get_once / http_post_once call reaches
\* its caller, which wraps it (or not) and jumps to exit_get / exit_post
OnceFailed(e) ==
    /\ err' = IF once.ctx = <<>> THEN e ELSE err_propagate(e, once.ctx[1])
    /\ pc' = "exit"

\* the arguments of the first http_get_once / http_post_once call
FirstOnce ==
    [post |-> args.fn = "POST",
     host |-> Str(heap, parsed_uri.host), path |-> Str(heap, parsed_uri.path),
     port |-> parsed_uri.port, addr_type |-> parsed_uri.addr_type,
     ctx |-> <<(IF args.fn = "POST" THEN "Failed to POST to "
                ELSE "Failed to get HTTP response from ")
               \o HostPort(Str(heap, parsed_uri.host), parsed_uri.port)>>]

\* entry of http_get (fn = "GET") or http_post (fn = "POST"): parse_uri
Enter(fn, uri, body, headers, follow, max) ==
    LET r == parse_uri(uri, URI_ZERO, heap)
    IN  /\ pc = "idle"
        /\ args' = [fn |-> fn, uri |-> uri, body |-> body, headers |-> headers,
                    follow_redirects |-> follow, max_redirects |-> max]
        /\ use_post' = TRUE
        /\ parsed_uri' = r.out
        /\ heap' = r.heap
        /\ sock' = 0
        /\ current_response' = RESPONSE_ZERO
        /\ IF r.code /= "SUCCESS"
           THEN /\ err' = err_propagate([code |-> r.code, message |-> ""],
                                        "Failed to parse URI: " \o uri)
                /\ pc' = "exit"
           ELSE /\ err' = ERR_OK
                /\ pc' = "connect"
        /\ UNCHANGED <<redirects_followed, response, url, once, fds, live,
                       connects, attempts, used, nio, lastReq, lastRaw>>
        /\ UNCHANGED <<lastReply, unitvars>>

http_get ==
    \E uri \in Uris, headers \in HeaderLists, follow \in BOOLEAN,
       max \in MaxRedirectsArgs :
        Enter("GET", uri, <<>>, headers, follow, max)

http_post ==
    \E uri \in Uris, body \in Bodies, headers \in HeaderLists,
       follow \in BOOLEAN, max \in MaxRedirectsArgs :
        Enter("POST", uri, body, headers, follow, max)

\* err = net_connect(&sock, TOR_IP, TOR_PORT) before the first attempt
ConnectFirst ==
    /\ pc = "connect"
    /\ \E outcome \in ConnectOutcomes, errno \in Errnos :
        LET r == net_connect(sock, fds, live, ProxyEndpoint[1], ProxyEndpoint[2],
                             outcome, errno)
        IN  /\ sock' = r.sock
            /\ fds' = r.fds
            /\ live' = r.live
            /\ connects' = IF outcome = "socket_failed" \/ ~inet_pton4(ProxyEndpoint[1])
                           THEN connects ELSE connects \cup {ProxyEndpoint}
            /\ nio' = nio + 1
            /\ IF ERR_FAILED(r.err)
               THEN /\ err' = err_propagate(r.err, "Cannot connect to TOR at "
                                            \o HostPort(TOR_IP, TOR_PORT))
                    /\ pc' = "exit"
                    /\ UNCHANGED <<once, used>>
               ELSE /\ err' = r.err
                    /\ once' = FirstOnce
                    /\ used' = 0
                    /\ pc' = "socks"
    /\ UNCHANGED <<args, parsed_uri, heap, use_post, redirects_followed,
                   current_response, response, url, attempts, lastReq, lastRaw>>
    /\ UNCHANGED <<lastReply, unitvars>>

\* http_get_once / http_post_once: socks4_connect(sock, host, (uint16_t)port,
\* PROG_NAME, addr_type)
OnceSocks ==
    /\ pc = "socks"
    /\ attempts' = attempts + 1
    /\ used' = used + 1
    /\ \E sendOK \in BOOLEAN, errno \in Errnos :
       \E reply \in IF sendOK THEN SocksReplies ELSE {[n |-> 0, vn |-> 0, cd |-> 0]} :
        LET r == socks4_connect(once.host, once.port % 65536, PROG_NAME,
                                once.addr_type, sendOK, reply, errno)
        IN  /\ nio' = nio + r.calls
            /\ lastReply' = IF r.calls = 2 THEN <<reply>> ELSE <<>>
            /\ IF ERR_FAILED(r.err)
               THEN OnceFailed(err_propagate(r.err, "SOCKS4 connection to "
                                  \o HostPort(once.host, once.port) \o " failed"))
               ELSE /\ err' = r.err
                    /\ pc' = "send"
    /\ UNCHANGED <<args, parsed_uri, heap, sock, use_post, redirects_followed,
                   current_response, response, url, once, fds, live, connects,
                   lastReq, lastRaw>>
    /\ UNCHANGED unitvars

\* the request text of the pending attempt
OnceRequest ==
    IF once.post
    THEN PostRequest(once.host, once.path, once.port, args.body, args.headers)
    ELSE GetRequest(once.host, once.path, once.port, args.headers)

\* http_get_once / http_post_once: format the request and http_send it
OnceSend ==
    /\ pc = "send"
    /\ \E mallocOK \in IF Len(args.headers) > 0 THEN BOOLEAN ELSE {TRUE},
          sendOK \in BOOLEAN, errno \in Errnos :
        IF Len(args.headers) > 0 /\ ~mallocOK
        THEN /\ OnceFailed(err_create("ERR_OUTOFMEMORY",
                                      "Failed to allocate memory for headers"))
             /\ UNCHANGED <<nio, lastReq>>
        ELSE IF ERR_FAILED(ValidateHeaders(args.headers))
        THEN /\ OnceFailed(ValidateHeaders(args.headers))
             /\ UNCHANGED <<nio, lastReq>>
        ELSE IF ~sendOK
        THEN /\ OnceFailed(err_create("ERR_NETWORK_IO",
                              "send() failed after 0/" \o ToString(Len(OnceRequest))
                              \o " bytes (error " \o ToString(errno) \o ")"))
             /\ nio' = nio + 1
             /\ UNCHANGED lastReq
        ELSE /\ lastReq' = OnceRequest
             /\ nio' = nio + 1
             /\ err' = ERR_OK
             /\ pc' = "recv"
    /\ UNCHANGED <<args, parsed_uri, heap, sock, use_post, redirects_followed,
                   current_response, response, url, once, fds, live, connects,
                   attempts, used, lastRaw>>
    /\ UNCHANGED <<lastReply, unitvars>>

\* http_get_once / http_post_once: http_recv_response(sock, out)
OnceRecv ==
    /\ pc = "recv"
    /\ nio' = nio + 1
    /\ \E recvOK \in BOOLEAN, errno \in Errnos :
       \E text \in IF recvOK THEN ServerTexts ELSE {""} :
        LET raw == Truncate(text, HTTP_MAX_RESPONSE)
            code == ParseStatusCode(raw)
        IN  IF ~recvOK
            THEN /\ OnceFailed(err_propagate(
                        err_create("ERR_NETWORK_IO",
                                   "recv() failed with error " \o ToString(errno)),
                        "Failed to receive HTTP response"))
                 /\ current_response' = [current_response EXCEPT !.bytes_received = 0]
                 /\ UNCHANGED lastRaw
            ELSE IF code = 0 - 1
            THEN /\ OnceFailed(err_create("ERR_BAD_RESPONSE",
                        "Malformed HTTP header: Unable to parse status code"))
                 /\ current_response' = [current_response EXCEPT
                                            !.raw = raw, !.bytes_received = 0]
                 /\ lastRaw' = raw
            ELSE /\ current_response' = [status_code |-> code, raw |-> raw,
                                         bytes_received |-> Len(raw)]
                 /\ lastRaw' = raw
                 /\ err' = ERR_OK
                 /\ pc' = "loop"
    /\ UNCHANGED <<args, parsed_uri, heap, sock, use_post, redirects_followed,
                   response, url, once, fds, live, connects, attempts, used,
                   lastReq>>
    /\ UNCHANGED <<lastReply, unitvars>>

\* a return without the memcpy
ReturnedResponse_NoCopy == response

\* memcpy(response, &current_response, sizeof(HttpResponse))
ReturnedResponse == current_response

\* the head of the redirect loop: leave it with the final response, or
\* check the limit and scan the response for its Location
RedirectLoop ==
    /\ pc = "loop"
    /\ IF ~LoopContinues(args.follow_redirects, current_response.status_code)
       THEN /\ response' = ReturnedResponse
            /\ pc' = "exit"
            /\ UNCHANGED <<err, redirects_followed, url>>
       ELSE IF RedirectLimitReached(redirects_followed, args.max_redirects)
       THEN /\ err' = err_create("ERR_HTTP_REDIRECT_LIMIT",
                                 "Exceeded maximum redirect limit of "
                                 \o ToString(args.max_redirects))
            /\ pc' = "exit"
            /\ UNCHANGED <<response, redirects_followed, url>>
       ELSE LET loc == ScanLocation(current_response.raw)
            IN  /\ redirects_followed' = redirects_followed + 1
                /\ UNCHANGED response
                /\ IF loc.kind = "unterminated"
                   THEN /\ err' = err_create("ERR_HTTP_REDIRECT_FAILED",
                                             "Failed to extract Location header")
                        /\ pc' = "exit"
                        /\ UNCHANGED url
                   ELSE IF loc.kind = "missing"
                   THEN /\ err' = err_create("ERR_HTTP_REDIRECT_FAILED",
                                             "Redirect missing Location header")
                        /\ pc' = "exit"
                        /\ UNCHANGED url
                   ELSE /\ url' = loc.url
                        /\ pc' = "reconnect"
                        /\ UNCHANGED err
    /\ UNCHANGED <<args, parsed_uri, heap, sock, use_post, current_response,
                   once, fds, live, connects, attempts, used, nio, lastReq,
                   lastRaw>>
    /\ UNCHANGED <<lastReply, unitvars>>

\* a redirect that opens the next socket without closing the current one
CloseForRedirect_Missing(handle, open, mine) ==
    [sock |-> handle, fds |-> open, live |-> mine, closed |-> <<>>]

\* net_close(&sock) before the socket of the next attempt is opened
CloseForRedirect(handle, open, mine) == net_close(handle, open, mine)

\* the redirect loop: net_close(&sock); err = net_connect(&sock, TOR_IP, TOR_PORT)
RedirectReconnect ==
    /\ pc = "reconnect"
    /\ \E outcome \in ConnectOutcomes, errno \in Errnos :
        LET c == CloseForRedirect(sock, fds, live)
            r == net_connect(c.sock, c.fds, c.live, ProxyEndpoint[1],
                             ProxyEndpoint[2], outcome, errno)
        IN  /\ sock' = r.sock
            /\ fds' = r.fds
            /\ live' = r.live
            /\ connects' = IF outcome = "socket_failed" \/ ~inet_pton4(ProxyEndpoint[1])
                           THEN connects ELSE connects \cup {ProxyEndpoint}
            /\ nio' = nio + 1
            /\ IF ERR_FAILED(r.err)
               THEN /\ err' = err_propagate(r.err, "Cannot connect to TOR at "
                                            \o HostPort(TOR_IP, TOR_PORT))
                    /\ pc' = "exit"
                    /\ UNCHANGED used
               ELSE /\ err' = r.err
                    /\ used' = 0
                    /\ pc' = "resolve"
    /\ UNCHANGED <<args, parsed_uri, heap, use_post, redirects_followed,
                   current_response, response, url, once, attempts, lastReq,
                   lastRaw>>
    /\ UNCHANGED <<lastReply, unitvars>>

\* the redirect loop: choose the method (http_post) and the target of the
\* next attempt from the Location value
RedirectResolve ==
    /\ pc = "resolve"
    /\ LET post == IF args.fn = "POST"
                   THEN MethodAfterRedirect(use_post, current_response.status_code)
                   ELSE FALSE
           \* http_post releases the old URI before it parses the new one
           old == IF args.fn = "POST" THEN cleanup_uri(parsed_uri, heap)
                  ELSE [uri |-> parsed_uri, heap |-> heap]
           r == parse_uri(url, old.uri, old.heap)
       IN  /\ use_post' = IF args.fn = "POST" THEN post ELSE use_post
           /\ IF IsRelativeLocation(url)
              THEN /\ once' = [post |-> post,
                               host |-> Str(heap, parsed_uri.host), path |-> url,
                               port |-> parsed_uri.port,
                               addr_type |-> parsed_uri.addr_type, ctx |-> <<>>]
                   /\ pc' = "socks"
                   /\ UNCHANGED <<parsed_uri, heap, err>>
              ELSE /\ parsed_uri' = r.out
                   /\ heap' = r.heap
                   /\ IF r.code /= "SUCCESS"
                      THEN /\ err' = err_propagate([code |-> r.code, message |-> ""],
                                         "Failed to parse redirect URL: " \o url)
                           /\ pc' = "exit"
                           /\ UNCHANGED once
                      ELSE /\ once' = [post |-> post,
                                       host |-> Str(r.heap, r.out.host),
                                       path |-> Str(r.heap, r.out.path),
                                       port |-> r.out.port,
                                       addr_type |-> r.out.addr_type,
                                       ctx |-> IF args.fn = "POST" THEN <<>>
                                               ELSE <<"HTTP redirect failed to "
                                                      \o HostPort(Str(r.heap, r.out.host),
                                                                  r.out.port)>>]
                           /\ pc' = "socks"
                           /\ UNCHANGED err
    /\ UNCHANGED <<args, sock, redirects_followed, current_response, response,
                   url, fds, live, connects, attempts, used, nio, lastReq,
                   lastRaw>>
    /\ UNCHANGED <<lastReply, unitvars>>

\* an exit label placed before the memcpy: every return copies
ResponseAtExit_CopyAlways(resp, cur) == cur

\* the memcpy into *response stands before the exit label: the code after
\* the label, which every return runs, does not write *response
ResponseAtExit(resp, cur) == resp

\* exit_get / exit_post: net_close(&sock); cleanup_uri(&parsed_uri); return err
Exit ==
    /\ pc = "exit"
    /\ LET c == net_close(sock, fds, live)
           u == cleanup_uri(parsed_uri, heap)
       IN  /\ sock' = c.sock
           /\ fds' = c.fds
           /\ live' = c.live
           /\ parsed_uri' = u.uri
           /\ heap' = u.heap
    /\ response' = ResponseAtExit(response, current_response)
    /\ pc' = "returned"
    /\ UNCHANGED <<args, err, use_post, redirects_followed, current_response,
                   url, once, connects, attempts, used, nio, lastReq,
                   lastRaw>>
    /\ UNCHANGED <<lastReply, unitvars>>

Next ==
    \/ http_get
    \/ http_post
    \/ ConnectFirst
    \/ OnceSocks
    \/ OnceSend
    \/ OnceRecv
    \/ RedirectLoop
    \/ RedirectReconnect
    \/ RedirectResolve
    \/ Exit

Spec == Init /\ [][Next]_vars

\* the places in http_get / http_post where the call can be
Waiting == {"idle", "connect", "socks", "send", "recv", "loop", "reconnect", "resolve"}

\* every socket call returns and the code after it runs on: the call takes
\* its last step when it has come to it, and it stays at no place for ever
LiveSpec ==
    /\ Spec
    /\ WF_vars(Exit)
    /\ \A p \in Waiting : []<>(pc /= p)

(***************************************************************************)
(* The functions of the socket and SOCKS layers, each run alone           *)
(***************************************************************************)
\* n copies of the character c
RECURSIVE Filler(_, _)
Filler(c, n) ==
    IF n = 0 THEN ""
    ELSE IF n % 2 = 0 THEN LET h == Filler(c, n \div 2) IN h \o h
    ELSE c \o Filler(c, n - 1)

\* the destinations handed to socks4_connect: the host of the URI, which
\* parse_uri copies whatever its length
SxHosts == {"93.184.216.34", "10.0.0.1", "a.io", "example.com", "256.1.1.1",
            "::1", "2001:db8::1", Filler("h", 500) \o ".io"}

SxPorts == {80, 443, 8080, 65535}

\* the user_id argument; NULL and "" take the same branch
SxUserIds == {"torilate", "u1", ""}

\* what the one net_recv of the negotiation yields: n bytes (-1: recv
\* failed) of a reply that starts with the bytes vn and cd
SxReplies ==
    {[n |-> n, vn |-> 0, cd |-> 90] : n \in {0 - 1, 0, 1, 2, 4, 7, 8}}
    \cup {[n |-> n, vn |-> v, cd |-> c] : n \in {4, 8}, v \in {0, 4}, c \in {90, 91, 92, 93}}

\* a call socks4_connect(sock, dst_ip, dst_port, user_id, addr_type) on a
\* connected socket, the address kind as net_get_addr_type gives it
Socks4Call ==
    /\ unit = "socks4"
    /\ sx.pc = "idle"
    /\ \E dst_ip \in SxHosts, dst_port \in SxPorts, user_id \in SxUserIds,
          sendOK \in BOOLEAN, errno \in Errnos :
       \E reply \in IF sendOK THEN SxReplies ELSE {[n |-> 0, vn |-> 0, cd |-> 0]} :
        LET kind == net_get_addr_type(dst_ip)
            r == socks4_connect(dst_ip, dst_port, user_id, kind, sendOK, reply, errno)
            n == Socks4RequestLen(dst_ip, user_id, kind)
            \* bytes memcpy and request[offset++] store past request[511]; the
            \* stores happen before the send, whatever the send does
            overrun == IF ERR_FAILED(r.err) /\ r.calls = 0 THEN 0
                       ELSE IF n > Socks4RequestSize THEN n - Socks4RequestSize
                       ELSE 0
        IN  \* a store outside the array is undefined: the call goes on with
            \* what it wrote, or the process is stopped when the damage to
            \* the stack is found
            \E stopped \in IF overrun > 0 THEN BOOLEAN ELSE {FALSE} :
             sx' = [pc |-> IF stopped THEN "aborted" ELSE "returned",
                    dst_ip |-> dst_ip, dst_port |-> dst_port,
                    user_id |-> user_id, addr_type |-> kind,
                    reply |-> IF r.calls = 2 THEN <<reply>> ELSE <<>>,
                    wire |-> r.wire, calls |-> r.calls, err |-> r.err,
                    overrun |-> overrun]
    /\ UNCHANGED <<pc, args, parsed_uri, heap, sock, err, use_post,
                   redirects_followed, current_response, response, url, once,
                   fds, live, connects, attempts, used, nio, lastReq, lastRaw,
                   lastReply, unit, sa, cs, rr, er, pu,
                   alone>>

\* the bytes handed to net_send_all
SaBufs == {Sub("GET / HT", 1, k) : k \in 0..MaxSendLen}

\* the results of one send(): -1, or the number of bytes accepted, from
\* none to all that were offered
SendResults(offered) == (0 - 1)..offered

\* net_send_all(sock, buf, len): size_t sent = 0
NetSendAllCall ==
    /\ unit = "send_all"
    /\ sa.pc = "idle"
    /\ \E buf \in SaBufs :
        sa' = [SA_IDLE EXCEPT !.pc = "loop", !.buf = buf]
    /\ UNCHANGED <<pc, args, parsed_uri, heap, sock, err, use_post,
                   redirects_followed, current_response, response, url, once,
                   fds, live, connects, attempts, used, nio, lastReq, lastRaw,
                   lastReply, unit, sx, cs, rr, er, pu,
                   alone>>

\* one turn of while (sent < len): n = send(handle, p + sent, len - sent, 0)
NetSendAllSend ==
    /\ unit = "send_all"
    /\ sa.pc = "loop"
    /\ sa.sent < Len(sa.buf)
    /\ sa.calls < MaxSendCalls
    /\ \E n \in SendResults(Len(sa.buf) - sa.sent), errno \in Errnos :
        sa' = IF n < 0
              THEN [sa EXCEPT !.pc = "returned", !.n = n, !.calls = @ + 1,
                       !.err = err_create("ERR_NETWORK_IO",
                                  "send() failed after " \o ToString(sa.sent) \o "/"
                                  \o ToString(Len(sa.buf)) \o " bytes (error "
                                  \o ToString(errno) \o ")")]
              ELSE [sa EXCEPT !.n = n, !.calls = @ + 1, !.sent = @ + n,
                       !.wire = @ \o Sub(sa.buf, sa.sent + 1, sa.sent + n)]
    /\ UNCHANGED <<pc, args, parsed_uri, heap, sock, err, use_post,
                   redirects_followed, current_response, response, url, once,
                   fds, live, connects, attempts, used, nio, lastReq, lastRaw,
                   lastReply, unit, sx, cs, rr, er, pu,
                   alone>>

\* the loop is left: return ERR_OK()
NetSendAllDone ==
    /\ unit = "send_all"
    /\ sa.pc = "loop"
    /\ ~(sa.sent < Len(sa.buf))
    /\ sa' = [sa EXCEPT !.pc = "returned", !.err = ERR_OK]
    /\ UNCHANGED <<pc, args, parsed_uri, heap, sock, err, use_post,
                   redirects_followed, current_response, response, url, once,
                   fds, live, connects, attempts, used, nio, lastReq, lastRaw,
                   lastReply, unit, sx, cs, rr, er, pu,
                   alone>>

\* net_connect(&sock, TOR_IP, TOR_PORT) on a NetSocket that holds no open
\* socket
NetConnectAlone ==
    /\ unit = "close"
    /\ cs.calls < MaxSocketCalls
    /\ cs.connected = {}
    /\ \E outcome \in ConnectOutcomes, errno \in Errnos :
        LET r == net_connect(cs.handle, cs.fds, cs.connected, TOR_IP, TOR_PORT,
                             outcome, errno)
        IN  cs' = [cs EXCEPT !.handle = r.sock, !.fds = r.fds,
                             !.connected = r.live, !.calls = @ + 1,
                             !.last = "net_connect",
                             !.since = IF ERR_FAILED(r.err) THEN @ ELSE 0]
    /\ UNCHANGED <<pc, args, parsed_uri, heap, sock, err, use_post,
                   redirects_followed, current_response, response, url, once,
                   fds, live, connects, attempts, used, nio, lastReq, lastRaw,
                   lastReply, unit, sa, sx, rr, er, pu,
                   alone>>

\* net_close(&sock) on a NetSocket a net_connect has filled; since counts
\* the net_close calls made after that net_connect
NetCloseAlone ==
    /\ unit = "close"
    /\ cs.calls < MaxSocketCalls
    /\ cs.since >= 0
    /\ LET r == net_close(cs.handle, cs.fds, cs.connected)
       IN  cs' = [cs EXCEPT !.handle = r.sock, !.fds = r.fds,
                            !.connected = r.live, !.calls = @ + 1,
                            !.last = "net_close",
                            !.os_closes = @ + Len(r.closed),
                            !.since = @ + 1]
    /\ UNCHANGED <<pc, args, parsed_uri, heap, sock, err, use_post,
                   redirects_followed, current_response, response, url, once,
                   fds, live, connects, attempts, used, nio, lastReq, lastRaw,
                   lastReply, unit, sa, sx, rr, er, pu,
                   alone>>


\* what the peer sends before it closes: a header and a body that ends
\* short of the buffer, fills it to the byte, or runs over it
RrStreams ==
    {"", "garbage",
     "HTTP/1.1 200 OK\r\n\r\n" \o Filler("x", 100),
     "HTTP/1.1 200 OK\r\n\r\n" \o Filler("x", HTTP_MAX_RESPONSE - 21),
     "HTTP/1.1 200 OK\r\n\r\n" \o Filler("x", HTTP_MAX_RESPONSE - 20),
     "HTTP/1.1 200 OK\r\n\r\n" \o Filler("x", HTTP_MAX_RESPONSE - 19),
     "HTTP/1.1 404 Not Found\r\n\r\n" \o Filler("y", HTTP_MAX_RESPONSE + 800),
     Filler("z", HTTP_MAX_RESPONSE + 800)}

\* the sizes in which recv() delivers what is there
RrChunks == {700, 4096, HTTP_MAX_RESPONSE}

\* a receive that asks for the whole buffer, the place of the NUL included
RecvRoom_NoNul(total) == HTTP_MAX_RESPONSE - total

\* the len argument of net_recv
RecvRoom(total) == HTTP_MAX_RESPONSE - 1 - total

\* the results of one recv() that asks for asked bytes when left bytes are
\* still to come: -1, 0 once the peer has closed, or a chunk of them
RecvResults(asked, left) ==
    {0 - 1} \cup (IF left = 0 \/ asked = 0 THEN {0}
                 ELSE {IF n > asked \/ n > left
                       THEN (IF asked < left THEN asked ELSE left)
                       ELSE n : n \in RrChunks})

\* http_recv_response(sock, out): int total = 0; out->bytes_received = 0
RecvResponseCall ==
    /\ unit = "recv"
    /\ rr.pc = "idle"
    /\ \E stream \in RrStreams, before \in {RESPONSE_ZERO,
                                           [status_code |-> 301, raw |-> "old",
                                            bytes_received |-> 3]} :
        rr' = [RR_IDLE EXCEPT !.pc = "loop", !.stream = stream,
                  !.out = [before EXCEPT !.bytes_received = 0]]
    /\ UNCHANGED <<pc, args, parsed_uri, heap, sock, err, use_post,
                   redirects_followed, current_response, response, url, once,
                   fds, live, connects, attempts, used, nio, lastReq, lastRaw,
                   lastReply, unit, sa, sx, cs, er, pu,
                   alone>>

\* one turn of while (total < HTTP_MAX_RESPONSE - 1): net_recv into
\* out->raw + total
RecvResponseRecv ==
    /\ unit = "recv"
    /\ rr.pc = "loop"
    /\ rr.total < HTTP_MAX_RESPONSE - 1
    /\ \E n \in RecvResults(RecvRoom(rr.total), Len(rr.stream) - rr.total),
          errno \in Errnos :
        rr' = IF n < 0
              THEN [rr EXCEPT !.pc = "returned", !.asked = RecvRoom(rr.total),
                       !.got = n,
                       !.err = err_propagate(
                                  err_create("ERR_NETWORK_IO",
                                      "recv() failed with error " \o ToString(errno)),
                                  "Failed to receive HTTP response")]
              ELSE IF n = 0
              THEN [rr EXCEPT !.pc = "parse", !.asked = RecvRoom(rr.total), !.got = n]
              ELSE [rr EXCEPT !.asked = RecvRoom(rr.total), !.got = n,
                       !.total = @ + n,
                       !.pc = IF rr.total + n < HTTP_MAX_RESPONSE - 1
                              THEN "loop" ELSE "parse"]
    /\ UNCHANGED <<pc, args, parsed_uri, heap, sock, err, use_post,
                   redirects_followed, current_response, response, url, once,
                   fds, live, connects, attempts, used, nio, lastReq, lastRaw,
                   lastReply, unit, sa, sx, cs, er, pu,
                   alone>>

\* after the loop: out->raw[total] = 0, then the status line is parsed
RecvResponseParse ==
    /\ unit = "recv"
    /\ rr.pc = "parse"
    /\ LET raw == Sub(rr.stream, 1, rr.total)
           code == ParseStatusCode(raw)
       IN  rr' = IF code = 0 - 1
                 THEN [rr EXCEPT !.pc = "returned", !.nul = rr.total,
                          !.out = [@ EXCEPT !.raw = raw],
                          !.err = err_create("ERR_BAD_RESPONSE",
                                "Malformed HTTP header: Unable to parse status code")]
                 ELSE [rr EXCEPT !.pc = "returned", !.nul = rr.total,
                          !.out = [status_code |-> code, raw |-> raw,
                                   bytes_received |-> rr.total],
                          !.err = ERR_OK]
    /\ UNCHANGED <<pc, args, parsed_uri, heap, sock, err, use_post,
                   redirects_followed, current_response, response, url, once,
                   fds, live, connects, attempts, used, nio, lastReq, lastRaw,
                   lastReply, unit, sa, sx, cs, er, pu,
                   alone>>

\* the codes, terminal messages and contexts of the errors made alone: those
\* of the program, a URL of 300 characters among them
ErCodes == {"ERR_NETWORK_IO", "ERR_CONNECTION_FAILED", "ERR_INVALID_URI"}

ErMessages ==
    {"recv() failed with error 104",
     "Failed to connect to 127.0.0.1:9050 with error 111",
     "SOCKS4 request rejected (VN=0, CD=91) for a.io:80"}

ErContexts ==
    {"Failed to receive HTTP response",
     "Cannot connect to TOR at 127.0.0.1:9050",
     "Failed to parse redirect URL: http://" \o Filler("h", 300) \o "/p"}

\* ERR_NEW(code, "%s", m)
ErrNewAlone ==
    /\ unit = "error"
    /\ er.pc = "idle"
    /\ \E code \in ErCodes, m \in ErMessages :
        er' = [ER_IDLE EXCEPT !.pc = "made", !.code = code, !.m = m,
                  !.err = err_create(code, m)]
    /\ UNCHANGED <<pc, args, parsed_uri, heap, sock, err, use_post,
                   redirects_followed, current_response, response, url, once,
                   fds, live, connects, attempts, used, nio, lastReq, lastRaw,
                   lastReply, unit, sa, sx, cs, rr, pu,
                   alone>>

\* one more layer returns ERR_PROPAGATE(err, "%s", c)
ErrPropagateAlone ==
    /\ unit = "error"
    /\ er.pc = "made"
    /\ Len(er.ctxs) < MaxLayers
    /\ \E c \in ErContexts :
        er' = [er EXCEPT !.ctxs = Append(@, c), !.err = err_propagate(@, c)]
    /\ UNCHANGED <<pc, args, parsed_uri, heap, sock, err, use_post,
                   redirects_followed, current_response, response, url, once,
                   fds, live, connects, attempts, used, nio, lastReq, lastRaw,
                   lastReply, unit, sa, sx, cs, rr, pu,
                   alone>>

\* printf("%s\n", get_err_msg(&error, verbose))
GetErrMsgAlone ==
    /\ unit = "error"
    /\ er.pc = "made"
    /\ \E verbose \in BOOLEAN :
        er' = [er EXCEPT !.pc = "shown", !.verbose = verbose,
                  !.before = er.err.message,
                  !.err = get_err_msg(er.err, verbose),
                  !.shown = get_err_msg(er.err, verbose).message]
    /\ UNCHANGED <<pc, args, parsed_uri, heap, sock, err, use_post,
                   redirects_followed, current_response, response, url, once,
                   fds, live, connects, attempts, used, nio, lastReq, lastRaw,
                   lastReply, unit, sa, sx, cs, rr, pu,
                   alone>>

\* get_err_msg(&error, verbose) called once more on the same Error
GetErrMsgAgainAlone ==
    /\ unit = "error"
    /\ er.pc = "shown"
    /\ er' = [er EXCEPT !.pc = "shown2",
                        !.err = get_err_msg(er.err, er.verbose),
                        !.again = get_err_msg(er.err, er.verbose).message]
    /\ UNCHANGED <<pc, args, parsed_uri, heap, sock, err, use_post,
                   redirects_followed, current_response, response, url, once,
                   fds, live, connects, attempts, used, nio, lastReq, lastRaw,
                   lastReply, unit, sa, sx, cs, rr, pu,
                   alone>>

\* the strings parse_uri is given as they are
PuTexts ==
    {"example.com/api", "a.io", "a.io:8080", "a.io:8080/x?y=1", "10.0.0.1/",
     "localhost:3000/a/b", "ftp://x.com", "HTTP://a.io/x", "Https://a.io",
     "file:///etc", "a.io:/x", "a.io/r?u=http://b.io", ""}

\* the components URIs are built from; <<>> and "" stand for a part left out
PuSchemes == {"http", "https"}
PuHosts == {"example.com", "a.io", "10.0.0.1", "localhost"}
PuPorts == {<<>>, <<80>>, <<443>>, <<8080>>, <<65535>>}
PuPaths == {"", "/", "/api", "/a/b?q=1&r=http://c.io", "/x:1"}

\* scheme://host[:port][/path]
BuildUri(scheme, host, port, path) ==
    scheme \o "://" \o host
    \o (IF port = <<>> THEN "" ELSE ":" \o ToString(port[1])) \o path

\* parse_uri(uri, &out) with URI out = {0}
ParseUri(uri, built) ==
    LET r == parse_uri(uri, URI_ZERO, <<>>)
    IN  pu' = [pc |-> "done", uri |-> uri, built |-> built, code |-> r.code,
               out |-> r.out, heap |-> r.heap]

\* parse_uri on a string as given
ParseUriText ==
    /\ unit = "uri"
    /\ pu.pc = "idle"
    /\ \E uri \in PuTexts : ParseUri(uri, <<>>)
    /\ UNCHANGED <<pc, args, parsed_uri, heap, sock, err, use_post,
                   redirects_followed, current_response, response, url, once,
                   fds, live, connects, attempts, used, nio, lastReq, lastRaw,
                   lastReply, unit, sa, sx, cs, rr, er,
                   alone>>

\* parse_uri on a string built from its components
ParseUriBuilt ==
    /\ unit = "uri"
    /\ pu.pc = "idle"
    /\ \E scheme \in PuSchemes, host \in PuHosts, port \in PuPorts, path \in PuPaths :
        ParseUri(BuildUri(scheme, host, port, path),
                 <<[scheme |-> scheme, host |-> host, port |-> port, path |-> path]>>)
    /\ UNCHANGED <<pc, args, parsed_uri, heap, sock, err, use_post,
                   redirects_followed, current_response, response, url, once,
                   fds, live, connects, attempts, used, nio, lastReq, lastRaw,
                   lastReply, unit, sa, sx, cs, rr, er,
                   alone>>

\* what WSAStartup returns
WsaStatuses ==
    {"0", "WSASYSNOTREADY", "WSAVERNOTSUPPORTED", "WSAEINPROGRESS", "WSAEPROCLIM",
     "WSAEFAULT", "10093"}

\* net_init() of the Windows provider, for the status WSAStartup returned
\* (the POSIX provider returns ERR_OK)
net_init(status) ==
    IF status = "0" THEN ERR_OK
    ELSE err_create("ERR_SOCK_INIT_FAILED",
            IF status = "WSASYSNOTREADY" THEN "Network subsystem is not ready"
            ELSE IF status = "WSAVERNOTSUPPORTED" THEN "Winsock version not supported"
            ELSE IF status = "WSAEINPROGRESS"
            THEN "Blocking Winsock operation in progress"
            ELSE IF status = "WSAEPROCLIM" THEN "Too many processes using Winsock"
            ELSE IF status = "WSAEFAULT" THEN "Invalid WSADATA pointer"
            ELSE "Unknown error initializing Winsock: " \o status)

\* what http_get / http_post return to main
MainRequestResults ==
    {ERR_OK,
     err_create("ERR_CONNECTION_FAILED",
                "Cannot connect to TOR at 127.0.0.1:9050: Failed to connect to "
                \o "127.0.0.1:9050 with error 111"),
     err_create("ERR_BAD_RESPONSE",
                "Failed to get HTTP response from a.io:80: Malformed HTTP header: "
                \o "Unable to parse status code")}

\* main: error = parse_arguments(argc, argv, &args)
MainArguments ==
    /\ unit = "main"
    /\ alone.pc = "idle"
    /\ \E ok \in BOOLEAN, cmd \in {"CMD_GET", "CMD_POST"}, verbose \in BOOLEAN :
        alone' = [pc |-> IF ok THEN "net_init" ELSE "cleanUp",
                  cmd |-> cmd, verbose |-> verbose,
                  error |-> IF ok THEN ERR_OK
                            ELSE err_create("ERR_INVALID_ARGS", "Invalid arguments"),
                  init |-> ERR_OK, inits |-> 0, requests |-> 0, shown |-> "",
                  status |-> 0]
    /\ UNCHANGED <<pc, args, parsed_uri, heap, sock, err, use_post,
                   redirects_followed, current_response, response, url, once,
                   fds, live, connects, attempts, used, nio, lastReq, lastRaw,
                   lastReply, unit, sa, sx, cs, rr, er, pu>>

\* main: net_init(); its return value is not looked at
MainNetInit ==
    /\ unit = "main"
    /\ alone.pc = "net_init"
    /\ \E status \in WsaStatuses :
        alone' = [alone EXCEPT !.pc = "request", !.init = net_init(status),
                     !.inits = @ + 1]
    /\ UNCHANGED <<pc, args, parsed_uri, heap, sock, err, use_post,
                   redirects_followed, current_response, response, url, once,
                   fds, live, connects, attempts, used, nio, lastReq, lastRaw,
                   lastReply, unit, sa, sx, cs, rr, er, pu>>

\* main: switch (args.cmd): http_get or http_post is called
MainRequest ==
    /\ unit = "main"
    /\ alone.pc = "request"
    /\ \E r \in MainRequestResults :
        LET wrapped == err_propagate(r,
                          (IF alone.cmd = "CMD_GET" THEN "HTTP GET request to URL '"
                           ELSE "HTTP POST request to URL '") \o "a.io/x' failed")
        IN  alone' = [alone EXCEPT
                         !.pc = "cleanUp",
                         !.requests = @ + 1,
                         !.error = IF ~ERR_FAILED(r) THEN r
                                   ELSE IF alone.cmd = "CMD_GET" THEN wrapped
                                   ELSE [wrapped EXCEPT !.code = "ERR_HTTP_REQUEST_FAILED"]]
    /\ UNCHANGED <<pc, args, parsed_uri, heap, sock, err, use_post,
                   redirects_followed, current_response, response, url, once,
                   fds, live, connects, attempts, used, nio, lastReq, lastRaw,
                   lastReply, unit, sa, sx, cs, rr, er, pu>>

\* main: cleanUp: net_cleanup(); the error is printed; return error.code
MainCleanUp ==
    /\ unit = "main"
    /\ alone.pc = "cleanUp"
    /\ LET n == CodeNumber(alone.error.code)
           verbose == IF n >= CodeNumber("ERR_NO_ARGS")
                         /\ n <= CodeNumber("ERR_INVALID_COMMAND")
                      THEN TRUE ELSE alone.verbose
       IN  alone' = [alone EXCEPT
                        !.pc = "done",
                        !.shown = IF alone.error.code /= "SUCCESS"
                                  THEN get_err_msg(alone.error, verbose).message
                                  ELSE "",
                        !.status = n]
    /\ UNCHANGED <<pc, args, parsed_uri, heap, sock, err, use_post,
                   redirects_followed, current_response, response, url, once,
                   fds, live, connects, attempts, used, nio, lastReq, lastRaw,
                   lastReply, unit, sa, sx, cs, rr, er, pu>>

\* the body argument of http_post_once: NULL, a short form, and texts about
\* as long as char request[4096]
PoBodies == {<<>>, <<"a=1">>, <<Filler("b", 3000)>>, <<Filler("b", 4000)>>,
             <<Filler("b", 4096)>>}

\* http_post_once(sock, host, path, port, addr_type, body, headers, ..) after
\* its SOCKS negotiation: the request is formatted and http_send sends
\* strlen(request) bytes of it
PostOnceAlone ==
    /\ unit = "post_once"
    /\ alone.pc = "idle"
    /\ \E host \in {"a.io", "example.com"}, path \in {"/", "/submit"},
          port \in {80, 8080}, body \in PoBodies, hs \in HeaderLists :
        /\ ~ERR_FAILED(ValidateHeaders(hs))
        /\ alone' = [pc |-> "sent", host |-> host, path |-> path, port |-> port,
                     body |-> body, headers |-> hs,
                     request |-> PostRequest(host, path, port, body, hs)]
    /\ UNCHANGED <<pc, args, parsed_uri, heap, sock, err, use_post,
                   redirects_followed, current_response, response, url, once,
                   fds, live, connects, attempts, used, nio, lastReq, lastRaw,
                   lastReply, unit, sa, sx, cs, rr, er, pu>>

\* char new_path[1024]
NewPathSize == 1024

\* char new_url[1536]
NewUrlSize == 1536

\* Location values a server can send: the response buffer takes 8191 bytes
LcLocations ==
    {"/next", "http://b.io/", "/" \o Filler("p", 1022), "/" \o Filler("p", 1023),
     "/" \o Filler("p", 2000), "http://b.io/" \o Filler("p", 1523),
     "http://b.io/" \o Filler("p", 1524), "http://b.io/" \o Filler("p", 3000)}

\* the redirect responses that carry them
LcResponses ==
    {"HTTP/1.1 " \o code \o "\r\nLocation: " \o l \o "\r\n\r\n" :
        code \in {"301 Moved Permanently", "302 Found", "307 Temporary Redirect"},
        l \in LcLocations}

\* the redirect loop of http_get / http_post from the Location scan to the
\* copy of the value into new_path or new_url, the reconnect having worked
LocationCopyAlone ==
    /\ unit = "location"
    /\ alone.pc = "idle"
    /\ \E raw \in LcResponses :
        LET found == ScanLocation(raw)
            url_len == Len(found.url)
            size == IF IsRelativeLocation(found.url) THEN NewPathSize ELSE NewUrlSize
            \* memcpy(buf, url, url_len); buf[url_len] = '\0'
            overrun == IF url_len + 1 > size THEN url_len + 1 - size ELSE 0
        IN  /\ Len(raw) < HTTP_MAX_RESPONSE
            /\ found.kind = "found"
            \* a store outside the array is undefined: the call goes on with
            \* the copy, or the process is stopped
            /\ \E stopped \in IF overrun > 0 THEN BOOLEAN ELSE {FALSE} :
                alone' = [pc |-> IF stopped THEN "aborted" ELSE "copied",
                          raw |-> raw, url_len |-> url_len,
                          buffer |-> IF IsRelativeLocation(found.url)
                                     THEN "new_path" ELSE "new_url",
                          size |-> size, overrun |-> overrun,
                          copy |-> found.url, err |-> ERR_OK]
    /\ UNCHANGED <<pc, args, parsed_uri, heap, sock, err, use_post,
                   redirects_followed, current_response, response, url, once,
                   fds, live, connects, attempts, used, nio, lastReq, lastRaw,
                   lastReply, unit, sa, sx, cs, rr, er, pu>>

\* URLs with and without a port, the port in and out of 0..65535, numeric
\* or not
PtTexts ==
    {"a.io", "a.io/x", "https://a.io/", "a.io:8080/x", "a.io:65535", "a.io:65536",
     "a.io:65616/x", "a.io:70000/", "a.io:0", "a.io:abc/x", "a.io:80x", "a.io:-1",
     "10.0.0.1:131152", "http://a.io:443/"}

\* parse_uri(uri, &parsed_uri) and then http_get_once(&sock, host, path, port,
\* ..): the port of the SOCKS request is (uint16_t)port, the port of the
\* Host field is port printed with %d
PortOnceAlone ==
    /\ unit = "port"
    /\ alone.pc = "idle"
    /\ \E uri \in PtTexts :
        LET r == parse_uri(uri, URI_ZERO, <<>>)
            host == Str(r.heap, r.out.host)
            path == Str(r.heap, r.out.path)
        IN  alone' =
              IF r.code /= "SUCCESS"
              THEN [pc |-> "rejected", uri |-> uri, code |-> r.code, host |-> "",
                    port |-> 0, wire |-> <<>>, request |-> ""]
              ELSE [pc |-> "sent", uri |-> uri, code |-> r.code, host |-> host,
                    port |-> r.out.port,
                    wire |-> Socks4Request(host, r.out.port % 65536, PROG_NAME,
                                           r.out.addr_type),
                    request |-> GetRequest(host, path, r.out.port, <<>>)]
    /\ UNCHANGED <<pc, args, parsed_uri, heap, sock, err, use_post,
                   redirects_followed, current_response, response, url, once,
                   fds, live, connects, attempts, used, nio, lastReq, lastRaw,
                   lastReply, unit, sa, sx, cs, rr, er, pu>>

\* one of the functions is picked and run from its first line
UnitInit ==
    /\ pc = "idle"
    /\ args = ARGS_NONE
    /\ parsed_uri = URI_ZERO
    /\ heap = <<>>
    /\ sock = 0
    /\ err = ERR_OK
    /\ use_post = TRUE
    /\ redirects_followed = 0
    /\ current_response = RESPONSE_ZERO
    /\ response = RESPONSE_ZERO
    /\ url = ""
    /\ once = ONCE_NONE
    /\ fds = {0, 1, 2}
    /\ live = {}
    /\ connects = {}
    /\ attempts = 0
    /\ used = 0
    /\ nio = 0
    /\ lastReq = ""
    /\ lastRaw = ""
    /\ lastReply = <<>>
    /\ unit \in {"socks4", "send_all", "close", "recv", "error", "uri", "main",
                "post_once", "location", "port"}
    /\ sa = SA_IDLE
    /\ sx = SX_IDLE
    /\ cs = CS_IDLE
    /\ rr = RR_IDLE
    /\ er = ER_IDLE
    /\ pu = PU_IDLE
    /\ alone = ALONE_IDLE

UnitNext ==
    \/ Socks4Call
    \/ NetSendAllCall
    \/ NetSendAllSend
    \/ NetSendAllDone
    \/ NetConnectAlone
    \/ NetCloseAlone
    \/ RecvResponseCall
    \/ RecvResponseRecv
    \/ RecvResponseParse
    \/ ErrNewAlone
    \/ ErrPropagateAlone
    \/ GetErrMsgAlone
    \/ GetErrMsgAgainAlone
    \/ ParseUriText
    \/ ParseUriBuilt
    \/ MainArguments
    \/ MainNetInit
    \/ MainRequest
    \/ MainCleanUp
    \/ PostOnceAlone
    \/ LocationCopyAlone
    \/ PortOnceAlone

UnitSpec == UnitInit /\ [][UnitNext]_vars

(***************************************************************************)
(* Properties                                                              *)
(***************************************************************************)
Is3xx(code) == code >= 300 /\ code <= 399

RECURSIVE LowerStr(_)
LowerStr(s) == IF s = "" THEN "" ELSE tolower(At(s, 1)) \o LowerStr(From(s, 2))

\* some line after the first CRLF of raw starts with "Location:", in any case
HasLocationLine(raw) ==
    \E p \in 3..Len(raw) :
        /\ Sub(raw, p - 2, p - 1) = CRLF
        /\ LowerStr(Sub(raw, p, p + 8)) = "location:"

\* the text of the body argument
BodyText == IF args.body = <<>> THEN "" ELSE args.body[1]

\* req is a GET request: no Content-Length field, nothing after the blank line
IsGetText(req) ==
    /\ strncmp0(req, "GET ")
    /\ strstr(req, 1, "Content-Length:") = 0
    /\ strstr(req, 1, "\r\n\r\n") = Len(req) - 3

\* req is a POST request that carries the body argument and its length
IsPostText(req) ==
    /\ strncmp0(req, "POST ")
    /\ strstr(req, 1, "\r\nContent-Length: " \o ToString(Len(BodyText)) \o CRLF) /= 0
    /\ strstr(req, 1, "\r\n\r\n") /= 0
    /\ From(req, strstr(req, 1, "\r\n\r\n") + 4) = BodyText

\* the request line and Host field of a request for the target t
RequestHead(t) ==
    (IF t.post THEN "POST " ELSE "GET ") \o t.path \o " HTTP/1.1\r\nHost: "
    \o t.host \o (IF t.port = 80 THEN "" ELSE ":" \o ToString(t.port)) \o CRLF

\* C1: with follow_redirects, a 3xx response received when redirects_followed
\* equals max_redirects ends the call with ERR_HTTP_REDIRECT_LIMIT; after that
\* error nothing more is connected, sent or received; and no more than
\* max_redirects redirects are ever followed.
C1_RedirectLimit ==
    [][/\ (/\ pc = "loop"
           /\ args.follow_redirects
           /\ Is3xx(current_response.status_code)
           /\ redirects_followed = args.max_redirects)
          => (pc' = "exit" /\ err'.code = "ERR_HTTP_REDIRECT_LIMIT")
       /\ err.code = "ERR_HTTP_REDIRECT_LIMIT"
          => (pc' = "returned" /\ err' = err /\ attempts' = attempts /\ nio' = nio)
       /\ (args'.follow_redirects /\ args'.max_redirects >= 0)
          => (redirects_followed' <= args'.max_redirects
              /\ attempts' <= args'.max_redirects + 1)]_vars

\* max_redirects = 2 and three 3xx responses in a row ended in the limit error
C1_Witness ==
    /\ pc = "returned"
    /\ args.max_redirects = 2
    /\ attempts = 3
    /\ current_response.status_code = 302
    /\ err.code = "ERR_HTTP_REDIRECT_LIMIT"

\* C2 as stated: in http_post the attempt after a 301, 302 or 303 is a GET
\* and the attempt after a 307 or 308 is a POST with the original body.
C2_Original ==
    (args.fn = "POST" /\ pc = "recv" /\ attempts >= 2)
    => /\ current_response.status_code \in {301, 302, 303} => IsGetText(lastReq)
       /\ current_response.status_code \in {307, 308} => IsPostText(lastReq)

\* C2 amended: in http_post the attempt after a 301, 302 or 303 is a GET (no
\* body, no Content-Length); the attempt after a 307 or 308 has the method of
\* the attempt before it: a POST with the original body, or a GET when an
\* earlier redirect of the call already made it one.
C2_MethodAfterRedirect ==
    [][/\ (args.fn = "POST" /\ pc = "resolve" /\ pc' = "socks")
          => /\ current_response.status_code \in {301, 302, 303} => ~once'.post
             /\ current_response.status_code \in {307, 308} => once'.post = once.post
       /\ (args'.fn = "POST" /\ pc' = "recv")
          => IF once'.post THEN IsPostText(lastReq') ELSE IsGetText(lastReq')
       /\ (args'.fn = "POST" /\ pc' = "recv" /\ attempts' = 1) => once'.post]_vars

\* a 307 that follows a downgrade is answered with a GET
C2_Witness ==
    /\ args.fn = "POST"
    /\ pc = "recv"
    /\ attempts = 3
    /\ current_response.status_code = 307
    /\ IsGetText(lastReq)

\* C3: a Location that starts with '/' sends the next attempt to the host,
\* port and address kind of the current one with the Location as path; any
\* other Location is parsed as a URI whose host, port and path the next
\* attempt uses, and a parse failure ends the call with the parse error; the
\* request sent names that target; a successful call made one attempt more
\* than it followed redirects.
C3_RedirectTarget ==
    [][/\ pc = "resolve"
          => IF At(url, 1) = "/"
             THEN /\ pc' = "socks"
                  /\ once'.host = once.host
                  /\ once'.port = once.port
                  /\ once'.addr_type = once.addr_type
                  /\ once'.path = url
             ELSE LET r == parse_uri(url, URI_ZERO, <<>>)
                  IN  IF r.code = "SUCCESS"
                      THEN /\ pc' = "socks"
                           /\ once'.host = Str(r.heap, r.out.host)
                           /\ once'.port = r.out.port
                           /\ once'.path = Str(r.heap, r.out.path)
                      ELSE /\ pc' = "exit"
                           /\ err'.code = r.code
                           /\ attempts' = attempts
       /\ pc' = "recv" => strncmp0(lastReq', RequestHead(once'))
       /\ (pc' = "returned" /\ ~ERR_FAILED(err'))
          => attempts' = redirects_followed' + 1]_vars

\* "Location: /new" was followed on the host of the first attempt
C3_Witness ==
    /\ pc = "recv"
    /\ attempts = 2
    /\ args.uri = "a.io/x"
    /\ url = "/new"
    /\ strncmp0(lastReq, "GET /new HTTP/1.1\r\nHost: a.io\r\n")

\* C4 as stated: with follow_redirects, a 3xx response without a Location
\* line always ends the call with ERR_HTTP_REDIRECT_FAILED.
C4_Original ==
    (/\ pc = "returned"
     /\ args.follow_redirects
     /\ Is3xx(current_response.status_code)
     /\ current_response.bytes_received > 0
     /\ ~HasLocationLine(current_response.raw))
    => err.code = "ERR_HTTP_REDIRECT_FAILED"

\* C4 amended: with follow_redirects, a 3xx response (304 included) without a
\* Location line, received when fewer than max_redirects redirects have been
\* followed, ends the call with ERR_HTTP_REDIRECT_FAILED and no new attempt.
C4_MissingLocation ==
    [][(/\ pc = "loop"
        /\ args.follow_redirects
        /\ Is3xx(current_response.status_code)
        /\ ~HasLocationLine(current_response.raw)
        /\ redirects_followed < args.max_redirects)
       => (pc' = "exit" /\ err'.code = "ERR_HTTP_REDIRECT_FAILED"
           /\ attempts' = attempts /\ nio' = nio)]_vars

\* a 304 without Location ended the call with the redirect-failed error
C4_Witness ==
    /\ pc = "returned"
    /\ current_response.status_code = 304
    /\ ~HasLocationLine(current_response.raw)
    /\ err.code = "ERR_HTTP_REDIRECT_FAILED"

\* C5: at most one socket of the call is open at any moment, every step of
\* an attempt runs on an open socket, and no socket serves two attempts.
C5_OneSocket ==
    /\ Cardinality(live) <= 1
    /\ used <= 1
    /\ pc \in {"socks", "send", "recv", "loop", "reconnect"} => live = {sock}

\* the second attempt of a call runs on the one open socket
C5_Witness ==
    /\ pc = "recv"
    /\ attempts = 2
    /\ live = {sock}
    /\ used = 1

\* C6: when the call has returned, with or without an error, no socket that
\* it opened is still open.
C6_NoSocketLeft == pc = "returned" => (live = {} /\ sock = 0 - 1)

\* a call that failed on its second attempt has returned
C6_Witness ==
    /\ pc = "returned"
    /\ attempts = 2
    /\ err.code = "ERR_BAD_RESPONSE"
    /\ live = {}

\* C7: connect() is only ever called with 127.0.0.1:9050, and every SOCKS
\* and HTTP request is sent on a socket connected by such a call.
C7_OnlyProxy ==
    /\ connects \subseteq {<<"127.0.0.1", 9050>>}
    /\ pc \in {"socks", "send", "recv"} => sock \in live

\* a redirect hop to a domain-name target went through the proxy
C7_Witness ==
    /\ pc = "recv"
    /\ attempts = 2
    /\ once.addr_type = "DOMAIN"
    /\ once.host = "b.io"
    /\ connects = {<<"127.0.0.1", 9050>>}

\* C8: once a step has failed, the call only cleans up and returns that
\* error: nothing more is connected, sent or received.
C8_FirstFailureEnds ==
    [][ERR_FAILED(err)
       => /\ pc = "exit" /\ pc' = "returned"
          /\ err' = err
          /\ nio' = nio /\ attempts' = attempts
          /\ connects' = connects /\ lastReq' = lastReq /\ lastRaw' = lastRaw]_vars

\* a rejected SOCKS negotiation on a redirect hop was returned as the error
C8_Witness ==
    /\ pc = "returned"
    /\ attempts = 2
    /\ err.code = "ERR_CONNECTION_FAILED"
    /\ lastRaw /= ""

\* C9: a successful call hands the caller the response of its last attempt,
\* and with follow_redirects that response is not a 3xx.
C9_FinalResponse ==
    (pc = "returned" /\ ~ERR_FAILED(err))
    => /\ response.raw = lastRaw
       /\ response.status_code = ParseStatusCode(lastRaw)
       /\ response.bytes_received = Len(lastRaw)
       /\ args.follow_redirects => ~Is3xx(response.status_code)

\* two redirects were followed and the 200 of the third attempt was returned
C9_Witness ==
    /\ pc = "returned"
    /\ ~ERR_FAILED(err)
    /\ attempts = 3
    /\ response.status_code = 200
    /\ response.raw = lastRaw

\* C10: without follow_redirects the call makes one attempt at most, never
\* fails with a redirect error, and returns whatever valid response the
\* attempt received, a 3xx included, as a success.
C10_NoFollow ==
    (args.fn /= "" /\ ~args.follow_redirects)
    => /\ attempts <= 1
       /\ err.code \notin {"ERR_HTTP_REDIRECT_LIMIT", "ERR_HTTP_REDIRECT_FAILED"}
       /\ (pc = "returned" /\ current_response.bytes_received > 0)
          => /\ attempts = 1
             /\ ~ERR_FAILED(err)
             /\ response = current_response
             /\ response.status_code = ParseStatusCode(lastRaw)

\* a 301 was returned as a success after one attempt
C10_Witness ==
    /\ pc = "returned"
    /\ ~args.follow_redirects
    /\ attempts = 1
    /\ ~ERR_FAILED(err)
    /\ response.status_code = 301

Socks4Sent == unit = "socks4" /\ sx.pc = "returned" /\ sx.wire /= <<>>

\* C12: for an IPv4 destination the request sent is 0x04, 0x01, the port in
\* two bytes big-endian, the four address bytes, the user id and one 0x00,
\* with nothing after it: 2 + 2 + 4 + len(user id) + 1 bytes.
C12_Ipv4Request ==
    (Socks4Sent /\ sx.addr_type = "IPV4")
    => /\ sx.wire = <<4, 1, sx.dst_port \div 256, sx.dst_port % 256>>
                     \o Ipv4Bytes(sx.dst_ip) \o Bytes(sx.user_id) \o <<0>>
       /\ Len(sx.wire) = 2 + 2 + 4 + Len(sx.user_id) + 1

\* C13: for a domain-name destination the IP field of the request is
\* 0.0.0.1, whatever the name, and the user id and its 0x00 are followed by
\* the name and one 0x00, with nothing after it.
C13_DomainRequest ==
    (Socks4Sent /\ sx.addr_type = "DOMAIN")
    => /\ SubSeq(sx.wire, 1, 8)
            = <<4, 1, sx.dst_port \div 256, sx.dst_port % 256, 0, 0, 0, 1>>
       /\ SubSeq(sx.wire, 9, Len(sx.wire))
            = Bytes(sx.user_id) \o <<0>> \o Bytes(sx.dst_ip) \o <<0>>

\* the request for a.io:8080 with user id u1
C13_Witness ==
    /\ Socks4Sent
    /\ sx.dst_ip = "a.io"
    /\ sx.wire = <<4, 1, 31, 144, 0, 0, 0, 1, 117, 49, 0, 97, 46, 105, 111, 0>>
    /\ ~ERR_FAILED(sx.err)

\* C14: socks4_connect succeeds only on a receive of exactly 8 bytes; a
\* receive of 0 to 7 bytes, the first piece of a reply that comes in pieces
\* included, fails with ERR_NET_RECV_FAILED whatever the bytes it holds, and
\* no second receive is made.
C14_WholeReply ==
    (unit = "socks4" /\ sx.pc = "returned")
    => /\ ~ERR_FAILED(sx.err) => (sx.reply /= <<>> /\ sx.reply[1].n = 8)
       /\ (sx.reply /= <<>> /\ sx.reply[1].n >= 0 /\ sx.reply[1].n < 8)
          => sx.err.code = "ERR_NET_RECV_FAILED"
       /\ sx.calls <= 2

\* a 4-byte piece that starts with the bytes of a granted reply was refused
C14_Witness ==
    /\ unit = "socks4"
    /\ sx.pc = "returned"
    /\ sx.reply = <<[n |-> 4, vn |-> 0, cd |-> 90]>>
    /\ sx.err.code = "ERR_NET_RECV_FAILED"

\* the 8-byte reply of the last negotiation grants the request
ReplyGrants(r) == r /= <<>> /\ r[1].n = 8 /\ r[1].vn = 0 /\ r[1].cd = 90

\* C15: the negotiation of an attempt succeeds if and only if the 8-byte
\* reply has byte 0 equal to 0 and byte 1 equal to 90; any other 8-byte reply
\* fails the attempt with ERR_CONNECTION_FAILED, and no HTTP request is sent
\* then or later in the call.
C15_GrantedOnly ==
    [][/\ pc = "socks"
          => /\ pc' = "send" <=> ReplyGrants(lastReply')
             /\ (lastReply' /= <<>> /\ lastReply'[1].n = 8 /\ ~ReplyGrants(lastReply'))
                => /\ pc' = "exit"
                   /\ err'.code = "ERR_CONNECTION_FAILED"
                   /\ lastReq' = lastReq
       /\ err.code = "ERR_CONNECTION_FAILED" => (lastReq' = lastReq /\ nio' = nio)]_vars

\* a reply with status 90 and a non-zero byte 0 ended the call
C15_Witness ==
    /\ pc = "returned"
    /\ lastReply = <<[n |-> 8, vn |-> 4, cd |-> 90]>>
    /\ err.code = "ERR_CONNECTION_FAILED"
    /\ lastReq = ""

\* C16: for an IPv6 destination socks4_connect fails with
\* ERR_INVALID_ADDRESS and sends nothing to the proxy.
C16_Ipv6Refused ==
    (unit = "socks4" /\ sx.pc = "returned" /\ sx.addr_type = "IPV6")
    => /\ sx.err.code = "ERR_INVALID_ADDRESS"
       /\ sx.wire = <<>>
       /\ sx.calls = 0

\* C17: net_send_all returns success only when the transport has accepted
\* every byte of the buffer, in order; and a send() that fails or accepts no
\* byte while bytes remain makes it return a failed error.
C17_SendAll ==
    unit = "send_all"
    => /\ (sa.pc = "returned" /\ ~ERR_FAILED(sa.err)) => sa.wire = sa.buf
       /\ (sa.calls > 0 /\ sa.n <= 0 /\ sa.sent < Len(sa.buf))
          => (sa.pc = "returned" /\ ERR_FAILED(sa.err))

\* C18: once net_close has run on a NetSocket that a successful net_connect
\* filled, the handle is -1 and no descriptor of the socket is open; any
\* further net_close calls close() on nothing and changes nothing.
C18_CloseIdempotent ==
    [][(unit = "close" /\ cs'.calls = cs.calls + 1 /\ cs'.last = "net_close")
       => /\ cs'.handle = 0 - 1
          /\ cs'.connected = {}
          /\ cs.since = 0 => (cs'.os_closes = cs.os_closes + 1
                               /\ cs'.fds = cs.fds \ {cs.handle})
          /\ cs.since >= 1 => (cs'.os_closes = cs.os_closes /\ cs'.fds = cs.fds
                                /\ cs'.handle = cs.handle)]_vars

\* three net_close calls after one net_connect made one close()
C18_Witness ==
    /\ unit = "close"
    /\ cs.since = 3
    /\ cs.calls = 4
    /\ cs.os_closes = 1
    /\ cs.handle = 0 - 1

\* the code of a status line HTTP/<major>.<minor> <code> that follows the
\* leading spaces, CRs and LFs of raw, or -1 when raw does not start so
StatusLineCode(raw) ==
    LET digit == {"0", "1", "2", "3", "4", "5", "6", "7", "8", "9"}
        st == SkipWhile(raw, 1, {" ", "\r", "\n"})
        dot == SkipWhile(raw, st + 5, digit)
        sp == SkipWhile(raw, dot + 1, digit)
        cd == SkipWhile(raw, sp, {" "})
        end == SkipWhile(raw, cd, digit)
    IN  IF /\ Sub(raw, st, st + 4) = "HTTP/"
           /\ dot > st + 5 /\ At(raw, dot) = "."
           /\ sp > dot + 1 /\ cd > sp /\ end > cd
        THEN DigitsValue(raw, cd, 0) ELSE 0 - 1

C20_BoundedReceive ==
    unit = "recv"
    => /\ rr.total <= HTTP_MAX_RESPONSE - 1
       /\ rr.total <= Len(rr.stream)
       /\ rr.got >= 0 => rr.asked + (rr.total - rr.got) <= HTTP_MAX_RESPONSE - 1
       /\ rr.pc = "parse" => (rr.got = 0 \/ rr.total = HTTP_MAX_RESPONSE - 1)
       /\ (rr.pc = "returned" /\ rr.err.code /= "ERR_NETWORK_IO")
          => (rr.nul = rr.total /\ rr.nul < HTTP_MAX_RESPONSE)
       /\ (rr.pc = "returned" /\ ~ERR_FAILED(rr.err))
          => /\ rr.out.bytes_received = rr.total
             /\ rr.out.raw = Sub(rr.stream, 1, rr.total)
             /\ rr.total = Len(rr.stream) \/ rr.total = HTTP_MAX_RESPONSE - 1
       /\ (rr.pc = "returned" /\ rr.err.code /= "ERR_NETWORK_IO"
           /\ StatusLineCode(rr.stream) \in 100..599)
          => ~ERR_FAILED(rr.err)

\* a response 800 bytes longer than the buffer was returned cut to 8191
C20_Witness ==
    /\ unit = "recv"
    /\ rr.pc = "returned"
    /\ Len(rr.stream) > HTTP_MAX_RESPONSE
    /\ ~ERR_FAILED(rr.err)
    /\ rr.out.status_code = 404
    /\ rr.out.bytes_received = 8191
    /\ Len(rr.out.raw) = 8191

\* the ERR_NEW calls under http_get / http_post: the fixed start of the
\* terminal message, and the code given with it
ErrNewSites ==
    {<<"socket() creation failed", "ERR_SOCKET_CREATION_FAILED">>,
     <<"Failed to parse IP address", "ERR_INVALID_ADDRESS">>,
     <<"Failed to connect to ", "ERR_CONNECTION_FAILED">>,
     <<"Failed to parse IPv4 address", "ERR_ADDRESS_RESOLUTION_FAILED">>,
     <<"send() failed after", "ERR_NETWORK_IO">>,
     <<"recv() failed with error", "ERR_NETWORK_IO">>,
     <<"Expected 8 bytes in SOCKS4 response", "ERR_NET_RECV_FAILED">>,
     <<"SOCKS4 request rejected", "ERR_CONNECTION_FAILED">>,
     <<"Failed to allocate memory for headers", "ERR_OUTOFMEMORY">>,
     <<"Header is empty or contains CR/LF", "ERR_INVALID_HEADER">>,
     <<"Malformed HTTP header", "ERR_BAD_RESPONSE">>,
     <<"Exceeded maximum redirect limit", "ERR_HTTP_REDIRECT_LIMIT">>,
     <<"Failed to extract Location header", "ERR_HTTP_REDIRECT_FAILED">>,
     <<"Redirect missing Location header", "ERR_HTTP_REDIRECT_FAILED">>}

\* the text part occurs in msg
Contains(msg, part) ==
    \E i \in 1..(Len(msg) - Len(part) + 1) : SubSeq(msg, i, i + Len(part) - 1) = part

\* the sites whose terminal message is in msg
SitesIn(msg) == {site \in ErrNewSites : Contains(msg, site[1])}

\* C21: the error http_get / http_post return carries the code that was
\* given where it was created, under any number of wrapping contexts: the
\* code of the ERR_NEW site whose terminal message its message ends in, or
\* the code parse_uri returned when parse_uri failed.
C21_CodeKept ==
    (pc = "returned" /\ ERR_FAILED(err))
    => IF SitesIn(err.message) = {}
       THEN /\ strncmp0(err.message, "Failed to parse ")
            /\ err.code = "ERR_INVALID_URI"
       ELSE \A site \in SitesIn(err.message) : err.code = site[2]

\* a receive error came back under two contexts with its code
C21_Witness ==
    /\ pc = "returned"
    /\ err.code = "ERR_NETWORK_IO"
    /\ strncmp0(err.message, "HTTP redirect failed to ")
    /\ Contains(err.message, ": Failed to receive HTTP response: recv() failed")

\* ck: ... : c2: c1: m for the contexts ctxs = <<c1, ..., ck>>
RECURSIVE Chain(_, _)
Chain(ctxs, m) ==
    IF ctxs = <<>> THEN m
    ELSE ctxs[Len(ctxs)] \o ": " \o Chain(SubSeq(ctxs, 1, Len(ctxs) - 1), m)

\* the program name, the code and the base message a rendering starts with
RenderHead(code) ==
    "torilate: (" \o ToString(CodeNumber(code)) \o ") "
    \o err_messg_list[CodeNumber(code) + 1] \o ": "

\* the places of ": " in msg
Delimiters(msg) == {i \in 1..(Len(msg) - 1) : SubSeq(msg, i, i + 1) = ": "}

\* what precedes the first ": " of msg, the whole of msg when it has none
FirstSegment(msg) ==
    IF Delimiters(msg) = {} THEN msg ELSE SubSeq(msg, 1, Min(Delimiters(msg)) - 1)

\* what follows the last ": " of msg, the whole of msg when it has none
LastSegment(msg) ==
    IF Delimiters(msg) = {} THEN msg
    ELSE LET last == CHOOSE i \in Delimiters(msg) : \A j \in Delimiters(msg) : j <= i
         IN  SubSeq(msg, last + 2, Len(msg))

\* C22: an error made with the terminal message m and wrapped with the
\* contexts c1, ..., ck has the message ck: ... : c1: m, m whole for every k
\* and every length of context, and its verbose rendering shows that chain.
C22_ChainKept ==
    unit = "error"
    => /\ er.pc = "made" => er.err.message = Chain(er.ctxs, er.m)
       /\ (er.pc = "shown" /\ er.verbose)
          => er.shown = RenderHead(er.code) \o Chain(er.ctxs, er.m)

FirstAt(s, chars) ==
    LET hits == {i \in 1..Len(s) : SubSeq(s, i, i) \in chars}
    IN  IF hits = {} THEN 0 ELSE Min(hits)

\* s is one decimal digit or more
AllDigits(s) ==
    /\ s /= ""
    /\ \A i \in 1..Len(s) :
         SubSeq(s, i, i) \in {"0", "1", "2", "3", "4", "5", "6", "7", "8", "9"}

\* the host and the path parse_uri left in its output
PuHost == Str(pu.heap, pu.out.host)
PuPath == Str(pu.heap, pu.out.path)

OtherScheme(uri) ==
    LET mark == FirstAt(uri, {":"})
    IN  /\ mark > 1
        /\ Len(uri) >= mark + 2 /\ SubSeq(uri, mark, mark + 2) = "://"
        /\ \A i \in 1..(mark - 1) :
             \E a \in 1..26 : SubSeq(uri, i, i) \in {SubSeq(UpperCase, a, a),
                                                     SubSeq(LowerCase, a, a)}
        /\ SubSeq(uri, 1, mark + 2) \notin {"http://", "https://"}

\* C26: parse_uri on a string with a scheme:// prefix other than exactly
\* http:// or https:// fails with the unsupported-scheme kind and leaves
\* the scheme name in the host field; http_get / http_post then fail and
\* open no connection.
C26_UnsupportedScheme ==
    /\ (unit = "uri" /\ pu.pc = "done" /\ OtherScheme(pu.uri))
       => /\ pu.code = "ERR_INVALID_SCHEMA"
          /\ PuHost = SubSeq(pu.uri, 1, FirstAt(pu.uri, {":"}) - 1)
    /\ (unit = "http" /\ pc = "returned" /\ OtherScheme(args.uri))
       => /\ err.code = "ERR_INVALID_SCHEMA"
          /\ connects = {}

\* C27: a string built as scheme://host[:port][/path] from a scheme http or
\* https, a host, a port and a path parses back to that host, that port and
\* that path, with the default of the scheme for a port left out and "/"
\* for a path left out.
C27_RoundTrip ==
    (unit = "uri" /\ pu.pc = "done" /\ pu.built /= <<>>)
    => LET b == pu.built[1]
       IN  /\ pu.code = "SUCCESS"
           /\ pu.out.schema = IF b.scheme = "http" THEN "HTTP" ELSE "HTTPS"
           /\ PuHost = b.host
           /\ pu.out.port = IF b.port /= <<>> THEN b.port[1]
                            ELSE IF b.scheme = "http" THEN 80 ELSE 443
           /\ PuPath = IF b.path = "" THEN "/" ELSE b.path

\* https://10.0.0.1:8080/a/b?q=1&r=http://c.io came back as its parts
C27_Witness ==
    /\ unit = "uri"
    /\ pu.pc = "done"
    /\ pu.built = <<[scheme |-> "https", host |-> "10.0.0.1", port |-> <<8080>>,
                     path |-> "/a/b?q=1&r=http://c.io"]>>
    /\ PuHost = "10.0.0.1"
    /\ pu.out.port = 8080
    /\ PuPath = "/a/b?q=1&r=http://c.io"

\* C28: the path of every URI that parse_uri has parsed starts with '/',
\* and so does the path of every attempt and of every request sent, the
\* first one and the one of every redirect hop.
C28_PathsStartWithSlash ==
    /\ parsed_uri.path /= NULL => At(Str(heap, parsed_uri.path), 1) = "/"
    /\ pc \in {"socks", "send", "recv"} => At(once.path, 1) = "/"
    /\ lastReq /= ""
       => \/ Sub(lastReq, 1, 5) = "GET /"
          \/ Sub(lastReq, 1, 6) = "POST /"

\* the request of a hop to the Location b.io/q was sent with the path /q
C28_Witness ==
    /\ pc = "recv"
    /\ attempts = 2
    /\ once.host = "b.io"
    /\ once.path = "/q"
    /\ Contains(lastReq, " /q HTTP/1.1")

\* C29: within one attempt the SOCKS negotiation on the freshly connected
\* socket comes first, then the send of the HTTP request, then the receive
\* of the response: a request is only sent on a socket whose SOCKS reply was
\* received whole and granted, and a response is only read after the request
\* of the attempt has been sent whole.
C29_AttemptOrder ==
    [][/\ pc = "socks" => (used = 0 /\ pc' \in {"send", "exit"})
       /\ pc = "send" => (ReplyGrants(lastReply) /\ pc' \in {"recv", "exit"})
       /\ pc = "recv"
          => (ReplyGrants(lastReply) /\ lastReq = OnceRequest
              /\ pc' \in {"loop", "exit"})
       /\ pc' = "send" => (pc = "socks" /\ ReplyGrants(lastReply'))
       /\ pc' = "recv" => (pc = "send" /\ lastReq' = OnceRequest)
       /\ lastReq' /= lastReq => pc = "send"
       /\ lastRaw' /= lastRaw => pc = "recv"]_vars

\* the response of a second attempt is awaited after its negotiation and
\* its request
C29_Witness ==
    /\ pc = "recv"
    /\ attempts = 2
    /\ ReplyGrants(lastReply)
    /\ lastReq = OnceRequest
    /\ Contains(lastReq, "Host: b.io")

\* C30: every host and path string that a parse_uri call of http_get /
\* http_post allocated is freed exactly once by the time the call returns,
\* and never twice, on success and on every error path.
C30_UriStringsReleased ==
    /\ \A p \in 1..Len(heap) : heap[p].frees <= 1
    /\ pc = "returned" => \A p \in 1..Len(heap) : heap[p].frees = 1

\* C31: when net_init fails the whole operation fails: no request is made
\* afterwards, the program reports the initialization error, and net_init
\* is not called again.
C31_InitFailureFatal ==
    (unit = "main" /\ alone.pc /= "idle")
    => /\ alone.inits <= 1
       /\ ERR_FAILED(alone.init)
          => /\ alone.requests = 0
             /\ alone.pc = "done"
                => /\ alone.error.code = "ERR_SOCK_INIT_FAILED"
                   /\ Contains(alone.shown, alone.init.message)

\* C32: socks4_connect never writes outside its 512-byte request buffer:
\* either the whole request (8 header bytes, the user id and its
\* terminator, the domain name and its terminator) fits, or the call fails
\* before anything is sent.
C32_RequestFitsBuffer ==
    (unit = "socks4" /\ sx.pc /= "idle")
    => /\ sx.overrun = 0
       /\ \/ Socks4RequestLen(sx.dst_ip, sx.user_id, sx.addr_type) <= 512
          \/ ERR_FAILED(sx.err) /\ sx.calls = 0 /\ sx.wire = <<>>

\* C33: every descriptor net_close hands to the operating system was
\* returned by a successful net_connect of the same call and is not yet
\* closed; when parse_uri or the first net_connect fails, the cleanup at
\* exit closes no descriptor.
C33_ClosesOwnSocket ==
    [][\A d \in fds \ fds' : d \in live]_vars

\* C34: in http_post the downgrade is permanent within a call: once a 301,
\* 302 or 303 has been followed, use_post stays false and every later
\* attempt of the call is sent as a GET, also after a 307 or 308.
C34_DowngradePermanent ==
    [][(args.fn = "POST" /\ pc /= "idle" /\ ~use_post)
       => /\ ~use_post'
          /\ pc' = "socks" => ~once'.post
          /\ (pc = "send" /\ pc' = "recv") => IsGetText(lastReq')]_vars

\* a 308 that follows a followed 301 is itself followed with a GET
C34_Witness ==
    /\ args.fn = "POST"
    /\ ~use_post
    /\ pc = "socks"
    /\ attempts = 2
    /\ redirects_followed = 2
    /\ current_response.status_code \in {307, 308}
    /\ ~once.post

\* the bytes of a request that follow the empty line closing its headers
SentBody(req) ==
    LET i == strstr(req, 1, "\r\n\r\n")
    IN  IF i = 0 THEN "" ELSE From(req, i + 4)

\* C35: the Content-Length a POST request declares equals the number of
\* body bytes actually sent, for every body length, also when the formatted
\* request is longer than the 4096-byte buffer.
C35_ContentLengthExact ==
    (unit = "post_once" /\ alone.pc = "sent")
    => strstr(alone.request, 1,
              "\r\nContent-Length: " \o ToString(Len(SentBody(alone.request)))
              \o "\r\n") /= 0

\* the status line and header lines of a response: the text up to the line
\* end that precedes the first empty line (all of it when there is none)
HeaderSection(raw) ==
    LET i == strstr(raw, 1, "\r\n\r\n")
    IN  IF i = 0 THEN raw ELSE Sub(raw, 1, i + 1)

\* C36: the Location a redirect follows is taken from the header section of
\* the response (before the first CRLF CRLF); a "Location:" line in the body
\* is never used, and a 3xx response without a Location header ends with
\* the redirect-failed error even when its body holds such a line.
C36_LocationFromHeaders ==
    /\ pc = "reconnect"
       => /\ ScanLocation(HeaderSection(current_response.raw)).kind = "found"
          /\ ScanLocation(HeaderSection(current_response.raw)).url = url
    /\ [][(pc = "loop" /\ pc' /= "loop"
           /\ LoopContinues(args.follow_redirects, current_response.status_code)
           /\ ~RedirectLimitReached(redirects_followed, args.max_redirects)
           /\ ScanLocation(HeaderSection(current_response.raw)).kind /= "found")
          => err'.code = "ERR_HTTP_REDIRECT_FAILED"]_vars

\* C37: the copy of the Location value always fits its destination: a
\* relative target is stored within the 1024 bytes of new_path and an
\* absolute one within the 1536 bytes of new_url, or the redirect is
\* rejected with an error before anything is copied.
C37_LocationFits ==
    (unit = "location" /\ alone.pc /= "idle")
    => /\ alone.overrun = 0
       /\ \/ alone.url_len + 1 <= (IF alone.buffer = "new_path" THEN 1024 ELSE 1536)
          \/ ERR_FAILED(alone.err) /\ alone.copy = ""

\* C38: a failed http_get / http_post call leaves the caller's HttpResponse
\* as it was: the object is written only by the memcpy on the success path,
\* so it is unchanged in every step of a call that fails.
C38_ResponseFrame ==
    [][/\ response' /= response
          => (pc = "loop" /\ pc' = "exit" /\ ~ERR_FAILED(err')
              /\ response' = current_response)
       /\ ERR_FAILED(err') => response' = RESPONSE_ZERO]_vars

\* a call that received a redirect and then failed returned with the
\* caller's response still as it was at the call
C38_Witness ==
    /\ pc = "returned"
    /\ ERR_FAILED(err)
    /\ attempts >= 1
    /\ current_response.status_code = 302
    /\ current_response.raw /= ""
    /\ response = RESPONSE_ZERO

\* C39: rendering an error is repeatable and leaves the error alone:
\* get_err_msg called twice with the same verbose setting returns the same
\* text, and a call changes neither the code nor the context chain of the
\* Error.
C39_RenderRepeatable ==
    (unit = "error" /\ er.pc \in {"shown", "shown2"})
    => /\ er.err.message = er.before
       /\ er.pc = "shown2" => er.again = er.shown

\* the text after the colon that follows the host of a URL without a
\* scheme, up to the path; "" when the URL names no port
PortText(uri) ==
    LET c == strchr(uri, ":")
        rest == From(uri, c + 1)
        e == FirstAt(rest, {"/"})
    IN  IF c = 0 \/ strstr(uri, 1, "://") /= 0 THEN ""
        ELSE IF e = 0 THEN rest ELSE Sub(rest, 1, e - 1)

\* C40: the port of a request lies within 0..65535 and the port in the SOCKS
\* request equals the port named in the Host field; an explicit port above
\* 65535 or one that is not a number is never silently turned into another
\* port.
C40_PortInRange ==
    (unit = "port" /\ alone.pc = "sent")
    => LET socks_port == alone.wire[3] * 256 + alone.wire[4]
       IN  /\ alone.port \in 0..65535
           /\ socks_port = alone.port
           /\ strstr(alone.request, 1,
                     "\r\nHost: " \o alone.host \o PortPart(socks_port) \o "\r\n") /= 0
           /\ PortText(alone.uri) /= ""
              => /\ AllDigits(PortText(alone.uri))
                 /\ ToString(alone.port) = PortText(alone.uri)

====
